---- MODULE Spec2Model ----
(***************************************************************************)
(* Model of OstiumService (src/app/services/ostium_service.py): the trade  *)
(* lifecycle operations place_order and close_trade, the position          *)
(* resolver and the numeric encoding inside close_trade, and the ledger    *)
(* gateway (the Ostium SDK) as the environment.                            *)
(*                                                                         *)
(* Python values are tagged records so that None, integers and strings     *)
(* stay distinct.  A Python string is a sequence of one-character strings, *)
(* so that str() and int() are computed digit by digit.                    *)
(***************************************************************************)
EXTENDS Integers, Sequences, FiniteSets, TLC

VARIABLES sdk, address, trader_address, private_key, pc, awaiting, calls, ct, po,
          adj, enc, fin, rt, mq, sm, outcome

vars == <<sdk, address, trader_address, private_key, pc, awaiting, calls, ct, po,
          adj, enc, fin, rt, mq, sm, outcome>>

(***************************************************************************)
(* Bounds of the model.                                                    *)
(***************************************************************************)
MaxPositions == 2

(***************************************************************************)
(* Python values.                                                          *)
(***************************************************************************)
V_int(n) == [k |-> "int", i |-> n, s |-> <<>>]
V_str(x) == [k |-> "str", i |-> 0, s |-> x]
None == [k |-> "none", i |-> 0, s |-> <<>>]
\* a dictionary key that is not present
Absent == [k |-> "absent", i |-> 0, s |-> <<>>]

\* Python truthiness of a value (`if not pair_id`, `x or y`)
truthy(v) ==
    CASE v.k = "int" -> v.i # 0
      [] v.k = "str" -> v.s # <<>>
      [] OTHER -> FALSE

Digits == <<"0", "1", "2", "3", "4", "5", "6", "7", "8", "9">>

IsDigit(c) == \E d \in 1..10 : Digits[d] = c

DigitVal(c) == (CHOOSE d \in 1..10 : Digits[d] = c) - 1

RECURSIVE NatToStr(_)
NatToStr(n) ==
    IF n < 10 THEN <<Digits[n + 1]>>
    ELSE Append(NatToStr(n \div 10), Digits[(n % 10) + 1])

\* str(v): the decimal digits of an integer, a string itself, "None" for None
str(v) ==
    CASE v.k = "int" -> IF v.i < 0 THEN <<"-">> \o NatToStr(-v.i) ELSE NatToStr(v.i)
      [] v.k = "str" -> v.s
      [] OTHER -> <<"N", "o", "n", "e">>

RECURSIVE ParseNat(_, _)
ParseNat(s, acc) ==
    IF s = <<>> THEN acc
    ELSE ParseNat(Tail(s), acc * 10 + DigitVal(Head(s)))

AllDigits(s) == s # <<>> /\ \A j \in 1..Len(s) : IsDigit(s[j])

\* int(v): an integer itself, a decimal string parsed, anything else raises
\* (ValueError for a non-numeric string, TypeError for None)
int(v) ==
    CASE v.k = "int" -> [ok |-> TRUE, v |-> v.i]
      [] v.k = "str" ->
            IF AllDigits(v.s) THEN [ok |-> TRUE, v |-> ParseNat(v.s, 0)]
            ELSE IF v.s # <<>> /\ Head(v.s) = "-" /\ AllDigits(Tail(v.s))
                 THEN [ok |-> TRUE, v |-> 0 - ParseNat(Tail(v.s), 0)]
                 ELSE [ok |-> FALSE, v |-> 0]
      [] OTHER -> [ok |-> FALSE, v |-> 0]

Min(a, b) == IF a < b THEN a ELSE b
Max(a, b) == IF a > b THEN a ELSE b

(***************************************************************************)
(* The numeric encoding of close_trade, lines 433-435: the default for an  *)
(* absent (None) value, then int(), then the clamp into [0, max].          *)
(***************************************************************************)
U16Max == 65535
U8Max == 255
DefaultPercentage == 100

\* the encoding with the value wrapped modulo the width instead of clamped
encode_wrapping(v, default, max) ==
    IF v.k = "none" THEN [ok |-> TRUE, v |-> default % (max + 1)]
    ELSE LET n == int(v) IN
         IF n.ok THEN [ok |-> TRUE, v |-> n.v % (max + 1)]
         ELSE [ok |-> FALSE, v |-> 0]

encode(v, default, max) ==
    IF v.k = "none" THEN [ok |-> TRUE, v |-> Min(Max(default, 0), max)]
    ELSE LET n == int(v) IN
         IF n.ok THEN [ok |-> TRUE, v |-> Min(Max(n.v, 0), max)]
         ELSE [ok |-> FALSE, v |-> 0]

pair_id_uint16(v) == encode(v, 0, U16Max)
trade_index_uint8(v) == encode(v, 0, U8Max)
\* the percentage encoded with the default of the other two arguments
close_percentage_default_zero(v) == encode(v, 0, U16Max)

close_percentage_uint16(v) == encode(v, DefaultPercentage, U16Max)

(***************************************************************************)
(* Records exchanged with the gateway.  A position is a dictionary read    *)
(* with .get(): each key holds a value or is Absent; the nested "pair" is  *)
(* absent, null, or a dictionary with an "id".                             *)
(***************************************************************************)
NoKey == "<absent>"

PairAbsent == [k |-> "absent", id |-> Absent]
PairNone == [k |-> "none", id |-> Absent]
PairDict(id) == [k |-> "dict", id |-> id]

Position(tradeID, pairId, pair, index) ==
    [tradeID |-> tradeID, pairId |-> pairId, pair |-> pair, index |-> index]

\* the position shapes sdk.subgraph.get_open_trades may return
PositionShapes ==
    { Position(V_str(<<"7">>), V_str(<<"3">>), PairAbsent, Absent),
      Position(V_str(<<"8">>), V_str(<<"3">>), PairDict(V_str(<<"3">>)), V_str(<<"1">>)),
      Position(V_str(<<"9">>), Absent,
               PairDict(V_str(<<"7", "0", "0", "0", "0">>)), V_int(300)),
      Position(V_str(<<"5">>), V_str(<<"2">>), PairNone, V_str(<<"0">>)) }

RECURSIVE SeqsUpTo(_, _)
SeqsUpTo(S, n) ==
    IF n = 0 THEN {<<>>}
    ELSE LET shorter == SeqsUpTo(S, n - 1) IN
         shorter \cup {Append(q, x) : q \in {r \in shorter : Len(r) = n - 1}, x \in S}

\* outcomes of `await self.sdk.subgraph.get_open_trades(target_address)`
OpenTradesResponses ==
    {[k |-> "raise", l |-> <<>>]}
        \cup {[k |-> "list", l |-> l] : l \in SeqsUpTo(PositionShapes, MaxPositions)}

\* outcomes of the call sdk.ostium.close_trade(...): it raises, or returns a
\* receipt with an order id that may be empty
SubmitResponses ==
    {[k |-> "raise", tx_hash |-> NoKey, order_id |-> NoKey],
     [k |-> "dict", tx_hash |-> "0xabc", order_id |-> ""],
     [k |-> "dict", tx_hash |-> "0xabc", order_id |-> "42"]}

Tri == {"absent", "true", "false"}

NoOrder ==
    [tradeID |-> Absent, isPending |-> "absent", isCancelled |-> "absent",
     cancelReason |-> NoKey, profitPercent |-> Absent, amountSentToTrader |-> Absent]

\* the order part of a tracked record: the flags are read with .get(), so each
\* may be missing; a cancel reason only accompanies a cancelled order, and the
\* profit or the amount sent only an order that was processed
OrderRecords ==
    { o \in [tradeID : {V_str(<<"7">>)}, isPending : Tri, isCancelled : Tri,
             cancelReason : {NoKey, "slippage"},
             profitPercent : {Absent, V_str(<<"5">>)},
             amountSentToTrader : {Absent, V_str(<<"1", "2">>)}] :
        /\ (o.cancelReason # NoKey => o.isCancelled = "true")
        /\ (o.profitPercent.k # "absent" => o.amountSentToTrader.k = "absent")
        /\ (o.profitPercent.k # "absent" \/ o.amountSentToTrader.k # "absent"
                => o.isPending = "false" /\ o.isCancelled # "true") }

NoTrade == [isOpen |-> "absent", has_pair |-> FALSE]

\* the trade part of a tracked record, as far as close_trade_datapoints
\* branches on it: the isOpen flag and whether pair.from / pair.to are there
TradeRecords ==
    {[isOpen |-> "false", has_pair |-> TRUE], [isOpen |-> "true", has_pair |-> TRUE],
     [isOpen |-> "absent", has_pair |-> TRUE], NoTrade}

\* the tracked records carrying order o; close_trade reads the trade part only
\* of an order that is not cancelled
TrackedWith(o) ==
    {[k |-> "dict", has_order |-> TRUE, order |-> o, trade |-> t] :
        t \in {u \in TradeRecords : o.isCancelled = "true" => u = NoTrade}}

\* outcomes of `await self.sdk.ostium.track_order_and_trade(...)`: it raises,
\* returns None, returns a record without an order, or a record with one
TrackResponses ==
    {[k |-> "raise", has_order |-> FALSE, order |-> NoOrder, trade |-> NoTrade],
     [k |-> "none", has_order |-> FALSE, order |-> NoOrder, trade |-> NoTrade],
     [k |-> "dict", has_order |-> FALSE, order |-> NoOrder, trade |-> NoTrade]}
        \cup UNION {TrackedWith(o) : o \in OrderRecords}

(***************************************************************************)
(* The arguments close_trade is called with.                               *)
(***************************************************************************)
PairIdArgs ==
    {V_str(<<"3">>), V_str(<<"7">>), V_str(<<"9">>), V_str(<<"9", "9">>),
     V_str(<<>>), V_int(3), None}

TradeIndexArgs == {V_str(<<"0">>), V_int(300), None}

ClosePercentageArgs == {V_int(100), V_int(0 - 5), V_int(70000), None}

(***************************************************************************)
(* The value an operation returns: the keys of the result dictionary, with *)
(* NoKey / Absent for a key the dictionary does not have.                  *)
(***************************************************************************)
\* the record trade_data_points returns (lines 780-801), here with no values
NoSummary ==
    [ok |-> FALSE, error |-> NoKey, entry |-> 0, size |-> 0, liquidation |-> 0,
     liquidation_price |-> <<0, 1>>, direction |-> NoKey]

NoOutcome ==
    [success |-> FALSE, error |-> NoKey, tx_hash |-> NoKey, order_id |-> NoKey,
     trade_id |-> Absent, pnl |-> Absent, order_status |-> NoKey,
     cancelled |-> "absent", cancel_reason |-> NoKey, note |-> NoKey,
     price |-> Absent, trade_summary |-> NoSummary, pair_id |-> None,
     amount |-> 0, value |-> "absent", escaped |-> FALSE]

Failure(msg) == [NoOutcome EXCEPT !.error = msg]

\* a gateway call of one invocation: the function and its integer arguments
Call(fn, a) == [fn |-> fn, a |-> a]

(***************************************************************************)
(* The position resolver of close_trade, lines 403-416.                    *)
(***************************************************************************)
\* dict.get(key, default)
get(v, default) == IF v.k = "absent" THEN default ELSE v

pos_trade_id(pos) == str(get(pos.tradeID, V_str(<<>>)))
pos_pair_id(pos) == str(get(pos.pairId, V_str(<<>>)))
\* pair_info = pos.get("pair", {}); str(pair_info.get("id", ""))
nested_pair_id(pos) ==
    IF pos.pair.k = "dict" THEN str(get(pos.pair.id, V_str(<<>>))) ELSE <<>>

\* the condition without the comparison of pairId
matches_without_pair_id(pos, pair_id) ==
    \/ pos_trade_id(pos) = str(pair_id)
    \/ nested_pair_id(pos) = str(pair_id)

\* the condition of lines 409-411
matches(pos, pair_id) ==
    \/ pos_trade_id(pos) = str(pair_id)
    \/ pos_pair_id(pos) = str(pair_id)
    \/ nested_pair_id(pos) = str(pair_id)

NotResolved ==
    [position_exists |-> FALSE, raised |-> FALSE, at |-> 0,
     actual_pair_id |-> None, actual_trade_index |-> None]

\* the loop over the live positions from position i on: a position whose
\* "pair" is null makes pair_info.get raise (AttributeError) when the scan
\* reaches it; the first matching position ends the scan
RECURSIVE resolve(_, _, _, _)
resolve(positions, i, pair_id, trade_index) ==
    IF i > Len(positions) THEN NotResolved
    ELSE LET pos == positions[i] IN
         IF pos.pair.k = "none" THEN [NotResolved EXCEPT !.raised = TRUE]
         ELSE IF matches(pos, pair_id)
              THEN [position_exists |-> TRUE, raised |-> FALSE, at |-> i,
                    actual_pair_id |->
                        IF nested_pair_id(pos) # <<>> THEN V_str(nested_pair_id(pos))
                        ELSE get(pos.pairId, pair_id),
                    actual_trade_index |-> get(pos.index, trade_index)]
              ELSE resolve(positions, i + 1, pair_id, trade_index)

\* get_open_positions, lines 375-385: the gateway's list, or [] when the
\* gateway call raised
get_open_positions(r) == IF r.k = "raise" THEN <<>> ELSE r.l

\* lines 433-435 for the three arguments: ok is FALSE when an int() raised
encode_arguments(pair_id, trade_index, close_percentage) ==
    LET a == pair_id_uint16(pair_id)
        b == trade_index_uint8(trade_index)
        c == close_percentage_uint16(close_percentage)
    IN [ok |-> a.ok /\ b.ok /\ c.ok, a |-> <<a.v, b.v, c.v>>]

(***************************************************************************)
(* The financial computations, trade_data_points (lines 769-801) and       *)
(* close_trade_datapoints (lines 803-890).  Prices and money are counted   *)
(* in hundredths, collateral in whole units, percentages in hundredths of  *)
(* a percent; a quotient is kept as numerator and denominator until        *)
(* round(x, 2) turns it into hundredths, ties going to the even neighbour. *)
(***************************************************************************)
\* n / d cut to hundredths instead of rounded
RoundDiv_truncating(n, d) ==
    LET m == IF d < 0 THEN 0 - n ELSE n
        e == IF d < 0 THEN 0 - d ELSE d
    IN m \div e

\* round(n / d, 2) in hundredths, for n / d counted in hundredths
RoundDiv(n, d) ==
    LET m == IF d < 0 THEN 0 - n ELSE n
        e == IF d < 0 THEN 0 - d ELSE d
        q == m \div e
        r == m % e
    IN IF 2 * r < e THEN q
       ELSE IF 2 * r > e THEN q + 1
       ELSE IF q % 2 = 0 THEN q ELSE q + 1

\* the liquidation price of lines 788-791 with the sign exchanged
liquidation_at_open_inverted(price, leverage, direction) ==
    IF direction THEN <<price * (leverage + 1), leverage>>
    ELSE <<price * (leverage - 1), leverage>>

\* lines 788-791: price * (1 - 1 / leverage) for a long, price * (1 + 1 /
\* leverage) for a short, as numerator and denominator
liquidation_at_open(price, leverage, direction) ==
    IF direction THEN <<price * (leverage - 1), leverage>>
    ELSE <<price * (leverage + 1), leverage>>

\* lines 777-801, given the outcome r of get_price: no price gives the failure
\* record of lines 780-783, leverage 0 makes 1 / leverage raise into the
\* handler of line 800
trade_data_points(r, collateral, leverage, direction) ==
    IF r.k = "raise"
    THEN [NoSummary EXCEPT !.error = "Could not fetch current price"]
    ELSE IF leverage = 0
    THEN [NoSummary EXCEPT !.error = "exception: division by zero"]
    ELSE LET liq == liquidation_at_open(r.price, leverage, direction) IN
         [ok |-> TRUE, error |-> NoKey,
          entry |-> RoundDiv(r.price, 1),
          size |-> RoundDiv(collateral * leverage * 100, 1),
          liquidation |-> RoundDiv(liq[1], liq[2]),
          liquidation_price |-> liq,
          direction |-> IF direction THEN "LONG" ELSE "SHORT"]

\* the trade part of a tracked record as close_trade_datapoints reads it
NoTradeData ==
    [isOpen |-> "absent", has_pair |-> FALSE, openPrice |-> 0, closePrice |-> 0,
     collateral |-> 0, leverage |-> 0, isBuy |-> FALSE, profitPercent |-> Absent]

NoDatapoints ==
    [ok |-> FALSE, error |-> NoKey, entry |-> 0, exit_price |-> 0, size |-> 0,
     has_liquidation |-> FALSE, liquidation |-> 0, direction |-> NoKey,
     profit_loss |-> 0, profit_loss_percentage |-> 0, closed |-> FALSE]

\* lines 820-826: which way close_trade_datapoints goes
datapoints_path(trade) ==
    IF ~trade.has_pair THEN "missing_pair"
    ELSE IF trade.isOpen = "false" THEN "closed"
    ELSE "open"

\* x or y or 0 of line 827, as a number
first_truthy(x, y) ==
    IF truthy(get(x, None)) THEN int(x).v
    ELSE IF truthy(get(y, None)) THEN int(y).v
    ELSE 0

\* the closed path with the trade's percentage taken before the order's
closed_datapoints_trade_first(trade, order_profit) ==
    LET pct == first_truthy(trade.profitPercent, order_profit) IN
    [NoDatapoints EXCEPT
        !.ok = TRUE, !.entry = RoundDiv(trade.openPrice, 1),
        !.exit_price = RoundDiv(trade.closePrice, 1),
        !.size = RoundDiv(trade.collateral * trade.leverage * 100, 1),
        !.direction = IF trade.isBuy THEN "LONG" ELSE "SHORT",
        !.profit_loss = RoundDiv(pct * trade.collateral * 100, 10000),
        !.profit_loss_percentage = RoundDiv(pct, 1),
        !.closed = TRUE]

\* lines 826-848, the closed path: the reported percentage of the collateral
closed_datapoints(trade, order_profit) ==
    LET pct == first_truthy(order_profit, trade.profitPercent) IN
    [NoDatapoints EXCEPT
        !.ok = TRUE, !.entry = RoundDiv(trade.openPrice, 1),
        !.exit_price = RoundDiv(trade.closePrice, 1),
        !.size = RoundDiv(trade.collateral * trade.leverage * 100, 1),
        !.direction = IF trade.isBuy THEN "LONG" ELSE "SHORT",
        !.profit_loss = RoundDiv(pct * trade.collateral * 100, 10000),
        !.profit_loss_percentage = RoundDiv(pct, 1),
        !.closed = TRUE]

\* lines 860-866: entry * (1 -+ 0.9 / leverage), or the entry price itself
liquidation_estimate(entry_price, leverage, direction) ==
    IF leverage > 0
    THEN IF direction THEN <<entry_price * (10 * leverage - 9), 10 * leverage>>
         ELSE <<entry_price * (10 * leverage + 9), 10 * leverage>>
    ELSE <<entry_price, 1>>

\* the profit of lines 868-871 with long and short exchanged
profit_loss_inverted(entry_price, exit_price, position_size, direction) ==
    IF direction THEN <<(entry_price - exit_price) * position_size * 100, entry_price>>
    ELSE <<(exit_price - entry_price) * position_size * 100, entry_price>>

\* lines 868-871, in hundredths, as numerator and denominator
profit_loss(entry_price, exit_price, position_size, direction) ==
    IF direction THEN <<(exit_price - entry_price) * position_size * 100, entry_price>>
    ELSE <<(entry_price - exit_price) * position_size * 100, entry_price>>

\* line 873 without the factor 100: a fraction instead of a percentage
profit_loss_fraction(pnl, collateral) ==
    IF collateral > 0 THEN <<pnl[1], pnl[2] * collateral>> ELSE <<0, 1>>

\* line 873, in hundredths of a percent, as numerator and denominator
profit_loss_percentage(pnl, collateral) ==
    IF collateral > 0 THEN <<pnl[1] * 100, pnl[2] * collateral>> ELSE <<0, 1>>

\* lines 850-887, the open estimate, given the outcome r of get_price: no
\* price gives the failure record of lines 852-855, an entry price of 0 makes
\* the division of line 869 or 871 raise into the handler of line 889
open_datapoints(trade, r) ==
    IF r.k = "raise"
    THEN [NoDatapoints EXCEPT !.error = "Could not fetch current price"]
    ELSE IF trade.openPrice = 0
    THEN [NoDatapoints EXCEPT !.error = "exception: division by zero"]
    ELSE LET position_size == trade.collateral * trade.leverage
             liq == liquidation_estimate(trade.openPrice, trade.leverage, trade.isBuy)
             pnl == profit_loss(trade.openPrice, r.price, position_size, trade.isBuy)
             pct == profit_loss_percentage(pnl, trade.collateral)
         IN [NoDatapoints EXCEPT
                !.ok = TRUE, !.entry = RoundDiv(trade.openPrice, 1),
                !.exit_price = RoundDiv(r.price, 1),
                !.size = RoundDiv(position_size * 100, 1),
                !.has_liquidation = TRUE,
                !.liquidation = RoundDiv(liq[1], liq[2]),
                !.direction = IF trade.isBuy THEN "LONG" ELSE "SHORT",
                !.profit_loss = RoundDiv(pnl[1], pnl[2]),
                !.profit_loss_percentage = RoundDiv(pct[1], pct[2]),
                !.closed = FALSE]

(***************************************************************************)
(* State: the frame of the close_trade invocation in flight.               *)
(***************************************************************************)
NoTrack == [k |-> "none", has_order |-> FALSE, order |-> NoOrder, trade |-> NoTrade]

CtIdle ==
    [active |-> FALSE, candidate |-> None, pair_id |-> None, trade_index |-> None,
     close_percentage |-> None,
     fetched |-> "not_run", positions |-> <<>>,
     position_exists |-> FALSE, validation |-> "not_run", at |-> 0,
     submit |-> "not_run", tx_hash |-> NoKey, order_id |-> NoKey,
     tracked |-> "not_run", result |-> NoTrack,
     success_result |-> NoOutcome, close_datapoints |-> "not_called"]

PoIdle ==
    [active |-> FALSE, from |-> "", to |-> "", collateral |-> 0, leverage |-> 0,
     direction |-> FALSE, order_type |-> "MARKET", limit_price |-> None,
     latest_price |-> 0, execution_price |-> None,
     tx_hash |-> NoKey, order_id |-> NoKey, trade_summary |-> NoSummary,
     trader |-> NoKey]

EncIdle ==
    [pair_id |-> None, trade_index |-> None, close_percentage |-> None,
     applied |-> FALSE, raised |-> FALSE, out |-> <<0, 0, 0>>]

\* the frame of the collateral or stop-loss / take-profit operation in flight
AdjIdle ==
    [op |-> "none", pair_id |-> None, amount |-> 0, trader_address |-> NoKey,
     address |-> NoKey, submit |-> "not_run", returned |-> "absent",
     tx_hash |-> NoKey]

\* the financial computation in hand, its arguments and the record it returned
FinIdle ==
    [fn |-> "none", stage |-> "idle", collateral |-> 0, leverage |-> 0,
     direction |-> FALSE, trade |-> NoTradeData, order_profit |-> Absent,
     price_fetches |-> 0, price_data |-> [k |-> "none", price |-> 0],
     estimate |-> Absent, summary |-> NoSummary,
     out |-> NoDatapoints]

\* __init__, lines 17-50: without a private key there is no wallet address, no
\* delegated trader address and no SDK; with one, the address and the SDK are
\* set and trader_address is TRADER_ADDRESS of the environment, if any
Configurations ==
    {[sdk |-> FALSE, address |-> NoKey, trader_address |-> NoKey,
      private_key |-> NoKey],
     [sdk |-> TRUE, address |-> "0xA", trader_address |-> NoKey,
      private_key |-> "0xKEY"],
     [sdk |-> TRUE, address |-> "0xA", trader_address |-> "0xT",
      private_key |-> "0xKEY"]}

\* the frame of a market-data query (lines 183-242): the instance whose body
\* runs is the service itself at depth 0 and a temporary service below it
MqIdle ==
    [fn |-> "none", from |-> "", to |-> "", stage |-> "idle", depth |-> 0,
     inst_sdk |-> FALSE, instances |-> 0, failure |-> "none",
     ret |-> "not_returned"]

\* state.py: the threads of the process, "main" being the one that imports
\* the module
Threads == {"main", "t1", "t2"}

\* WalletState() of state.py lines 9-13; written_with is the address the call
\* that last wrote is_initialized was given, kept to tell the writes apart
EmptyWallet ==
    [private_key |-> NoKey, address |-> NoKey, is_initialized |-> FALSE,
     written_with |-> NoKey]

NoThread ==
    [pc |-> "idle", op |-> "none", private_key |-> NoKey, address |-> NoKey,
     returned |-> 0, seen |-> EmptyWallet]

\* state.py before line 74 has run: no instance, nothing initialised
SmIdle ==
    [imported |-> FALSE, instance |-> 0, created |-> 0, cls_lock |-> "none",
     initialized |-> FALSE, wallet |-> EmptyWallet, wallets_made |-> 0,
     locks_made |-> 0, state_lock |-> "none", th |-> [t \in Threads |-> NoThread]]

\* the frame of a call of the track-order endpoint (routes/trading.py 182-191)
RtIdle == [active |-> FALSE, order_id |-> "", result |-> "not_run", status |-> 0]

Init ==
    /\ \E c \in Configurations :
          /\ sdk = c.sdk
          /\ address = c.address
          /\ trader_address = c.trader_address
          /\ private_key = c.private_key
    /\ rt = RtIdle
    /\ mq = MqIdle
    /\ sm = SmIdle
    /\ adj = AdjIdle
    /\ fin = FinIdle
    /\ pc = "idle"
    /\ awaiting = "none"
    /\ calls = <<>>
    /\ ct = CtIdle
    /\ po = PoIdle
    /\ enc = EncIdle
    /\ outcome = NoOutcome

\* the gateway completes the call the coroutine is suspended on
gateway_respond ==
    /\ awaiting = "pending"
    /\ awaiting' = "completed"
    /\ UNCHANGED <<sdk, address, trader_address, private_key, rt, mq, sm, adj, fin, pc, calls, ct, po, enc, outcome>>

\* the operation has returned its value to the caller
return ==
    /\ pc = "done"
    /\ pc' = "idle"
    /\ awaiting' = "none"
    /\ calls' = <<>>
    /\ ct' = CtIdle
    /\ po' = PoIdle
    /\ adj' = AdjIdle
    /\ rt' = RtIdle
    /\ outcome' = NoOutcome
    /\ UNCHANGED <<sdk, address, trader_address, private_key, mq, sm, fin, enc>>

(***************************************************************************)
(* close_trade, lines 387-495.                                             *)
(***************************************************************************)
NotFoundError == "Position with ID not found or already closed"

\* lines 394-398: the check of the id, then get_open_positions, which awaits
\* the gateway; without an SDK the attribute access raises inside
\* get_open_positions, which returns [], so no position can match
close_trade(pair_id, trade_index, close_percentage) ==
    /\ pc = "idle"
    /\ LET frame == [CtIdle EXCEPT !.active = TRUE,
                                 !.candidate = pair_id, !.pair_id = pair_id,
                                 !.trade_index = trade_index,
                                 !.close_percentage = close_percentage]
       IN IF ~truthy(pair_id)
          THEN /\ ct' = frame
               /\ outcome' = Failure("Trade ID is required")
               /\ pc' = "done"
               /\ UNCHANGED <<awaiting, calls>>
          ELSE IF ~sdk
          THEN /\ ct' = [frame EXCEPT !.fetched = "raise", !.validation = "not_found"]
               /\ outcome' = Failure(NotFoundError)
               /\ pc' = "done"
               /\ UNCHANGED <<awaiting, calls>>
          ELSE /\ ct' = frame
               /\ calls' = Append(calls, Call("get_open_trades", <<>>))
               /\ awaiting' = "pending"
               /\ pc' = "ct_positions"
               /\ UNCHANGED outcome
    /\ UNCHANGED <<sdk, address, trader_address, private_key, rt, mq, sm, adj, fin, po, enc>>

\* lines 398-451, from the return of the gateway's position list to the await
\* of the tracker: resolve, encode, submit
close_trade_resolve(r, sub) ==
    /\ pc = "ct_positions"
    /\ awaiting = "completed"
    /\ LET positions == get_open_positions(r)
           found == resolve(positions, 1, ct.pair_id, ct.trade_index)
           pair_id == IF found.position_exists /\ found.actual_pair_id.k # "none"
                      THEN found.actual_pair_id ELSE ct.pair_id
           trade_index == IF found.position_exists /\ found.actual_trade_index.k # "none"
                          THEN found.actual_trade_index ELSE ct.trade_index
           e == encode_arguments(pair_id, trade_index, ct.close_percentage)
           frame == [ct EXCEPT !.fetched = r.k, !.positions = positions,
                               !.position_exists = found.position_exists,
                               !.at = found.at,
                               !.validation = IF found.raised THEN "exception"
                                              ELSE IF found.position_exists THEN "found"
                                              ELSE "not_found",
                               !.pair_id = pair_id, !.trade_index = trade_index]
       IN IF ~found.raised /\ ~found.position_exists
          THEN /\ ct' = frame
               /\ outcome' = Failure(NotFoundError)
               /\ pc' = "done"
               /\ awaiting' = "none"
               /\ UNCHANGED calls
          ELSE IF ~e.ok
          THEN /\ ct' = frame
               /\ outcome' = Failure("exception: int()")
               /\ pc' = "done"
               /\ awaiting' = "none"
               /\ UNCHANGED calls
          ELSE IF sub.k = "raise"
          THEN /\ ct' = [frame EXCEPT !.submit = "raise"]
               /\ calls' = Append(calls, Call("close_trade", e.a))
               /\ outcome' = Failure("exception: close_trade")
               /\ pc' = "done"
               /\ awaiting' = "none"
          ELSE IF sub.order_id = ""
          THEN /\ ct' = [frame EXCEPT !.submit = "no_order_id", !.tx_hash = sub.tx_hash]
               /\ calls' = Append(calls, Call("close_trade", e.a))
               /\ outcome' = Failure("Failed to get order ID")
               /\ pc' = "done"
               /\ awaiting' = "none"
          ELSE /\ ct' = [frame EXCEPT !.submit = "accepted", !.tx_hash = sub.tx_hash,
                                      !.order_id = sub.order_id]
               /\ calls' = Append(Append(calls, Call("close_trade", e.a)),
                                  Call("track_order_and_trade", <<>>))
               /\ pc' = "ct_tracking"
               /\ awaiting' = "pending"
               /\ UNCHANGED outcome
    /\ UNCHANGED <<sdk, address, trader_address, private_key, rt, mq, sm, adj, fin, po, enc>>

\* float() of the order's profitPercent, else of its amountSentToTrader, else
\* 0.0 (lines 460-464); the modelled amounts are whole numbers
pnl_of(order) ==
    IF order.profitPercent.k # "absent" THEN V_int(int(order.profitPercent).v)
    ELSE IF order.amountSentToTrader.k # "absent"
         THEN V_int(int(order.amountSentToTrader).v)
         ELSE V_int(0)

\* order.get('isCancelled', False)
is_cancelled(order) == order.isCancelled = "true"

\* the dictionary with the cancellation recorded but success left TRUE
success_result_not_failed(order, tx_hash, order_id) ==
    [NoOutcome EXCEPT
        !.success = TRUE, !.tx_hash = tx_hash, !.order_id = order_id,
        !.trade_id = order.tradeID, !.pnl = pnl_of(order),
        !.order_status = IF order.isPending = "false" THEN "Processed" ELSE "Pending",
        !.cancelled = IF is_cancelled(order) THEN "true" ELSE "false",
        !.cancel_reason = IF ~is_cancelled(order) THEN NoKey
                          ELSE IF order.cancelReason = NoKey THEN "Unknown"
                          ELSE order.cancelReason]

\* the dictionary built at lines 466-479
success_result(order, tx_hash, order_id) ==
    LET base == [NoOutcome EXCEPT
                    !.success = TRUE, !.tx_hash = tx_hash, !.order_id = order_id,
                    !.trade_id = order.tradeID, !.pnl = pnl_of(order),
                    !.order_status =
                        IF order.isPending = "false" THEN "Processed" ELSE "Pending",
                    !.cancelled = IF is_cancelled(order) THEN "true" ELSE "false"]
    IN IF is_cancelled(order)
       THEN [base EXCEPT !.cancel_reason =
                            IF order.cancelReason = NoKey THEN "Unknown"
                            ELSE order.cancelReason,
                         !.success = FALSE, !.error = "Order cancelled"]
       ELSE base

\* the dictionary returned at lines 486-492
tracking_failed_result(tx_hash, order_id, pair_id) ==
    [NoOutcome EXCEPT !.success = TRUE, !.tx_hash = tx_hash, !.order_id = order_id,
                      !.trade_id = pair_id,
                      !.note = "Order submitted successfully, but tracking failed"]

\* lines 455-495, from the return of the tracker: a tracker that raised ends in
\* the handler of line 493; close_trade_datapoints (lines 803-890) is entered
\* for an order that is not cancelled and awaits a price only for a trade that
\* has its currency pair and is not reported closed
close_trade_tracked(t) ==
    /\ pc = "ct_tracking"
    /\ awaiting = "completed"
    /\ LET frame == [ct EXCEPT !.tracked = t.k, !.result = t] IN
       IF t.k = "raise"
       THEN /\ ct' = frame
            /\ outcome' = Failure("exception: track_order_and_trade")
            /\ pc' = "done"
            /\ awaiting' = "none"
            /\ UNCHANGED calls
       ELSE IF t.k = "none" \/ ~t.has_order
       THEN /\ ct' = frame
            /\ outcome' = tracking_failed_result(ct.tx_hash, ct.order_id, ct.pair_id)
            /\ pc' = "done"
            /\ awaiting' = "none"
            /\ UNCHANGED calls
       ELSE LET res == success_result(t.order, ct.tx_hash, ct.order_id) IN
            IF is_cancelled(t.order)
            THEN /\ ct' = [frame EXCEPT !.success_result = res]
                 /\ outcome' = res
                 /\ pc' = "done"
                 /\ awaiting' = "none"
                 /\ UNCHANGED calls
            ELSE IF ~t.trade.has_pair
            THEN /\ ct' = [frame EXCEPT !.success_result = res,
                                        !.close_datapoints = "missing_pair"]
                 /\ outcome' = res
                 /\ pc' = "done"
                 /\ awaiting' = "none"
                 /\ UNCHANGED calls
            ELSE IF t.trade.isOpen = "false"
            THEN /\ ct' = [frame EXCEPT !.success_result = res,
                                        !.close_datapoints = "closed"]
                 /\ outcome' = res
                 /\ pc' = "done"
                 /\ awaiting' = "none"
                 /\ UNCHANGED calls
            ELSE /\ ct' = [frame EXCEPT !.success_result = res,
                                        !.close_datapoints = "awaiting_price"]
                 /\ calls' = Append(calls, Call("get_price", <<>>))
                 /\ pc' = "ct_datapoints"
                 /\ awaiting' = "pending"
                 /\ UNCHANGED outcome
    /\ UNCHANGED <<sdk, address, trader_address, private_key, rt, mq, sm, adj, fin, po, enc>>

\* outcomes of `await self.sdk.price.get_price(from, to)`: it raises, or
\* returns the market price (in hundredths)
PriceResponses == {[k |-> "raise", price |-> 0]} \cup
                  {[k |-> "ok", price |-> p] : p \in {110, 112}}

\* lines 850-887 and 481-484: the price for the open estimate arrives (or
\* get_price returned None), the datapoints are logged, and close_trade returns
\* the result it had built
close_trade_datapoints_priced(r) ==
    /\ pc = "ct_datapoints"
    /\ awaiting = "completed"
    /\ ct' = [ct EXCEPT !.close_datapoints =
                            IF r.k = "raise" THEN "price_failed" ELSE "open"]
    /\ outcome' = ct.success_result
    /\ pc' = "done"
    /\ awaiting' = "none"
    /\ UNCHANGED <<sdk, address, trader_address, private_key, rt, mq, sm, adj, fin, calls, po, enc>>

(***************************************************************************)
(* place_order, lines 251-343.                                             *)
(***************************************************************************)
Currencies == {"", "EUR", "USD"}
TraderAddressArgs == {NoKey, "0xB"}
Collaterals == {0 - 1, 0, 100}
Leverages == {0 - 1, 0, 10}
\* ORDER_TYPE, as the route builds it (routes/trading.py line 68)
OrderTypes == {"MARKET", "LIMIT"}
\* limit_price: None, 0, or a price (in hundredths)
LimitPrices == {None, V_int(0), V_int(105)}

\* outcomes of the call sdk.ostium.perform_trade(...)
PerformResponses ==
    {[k |-> "raise", tx_hash |-> NoKey, order_id |-> NoKey],
     [k |-> "dict", tx_hash |-> "0xdef", order_id |-> "43"]}

\* the limit price taken whatever the order type
execution_price_any_type(order_type, limit_price, latest_price) ==
    IF truthy(limit_price) THEN limit_price ELSE V_int(latest_price)

\* line 309
execution_price(order_type, limit_price, latest_price) ==
    IF order_type = "LIMIT" /\ truthy(limit_price) THEN limit_price
    ELSE V_int(latest_price)

\* validation without the check of the leverage
validate_without_leverage(from, to, collateral, leverage) ==
    IF from = "" \/ to = "" THEN "Currency pair is required"
    ELSE IF collateral <= 0 THEN "Collateral must be positive"
    ELSE NoKey

\* lines 265-272: the reason validation fails with, NoKey when it passes
validate(from, to, collateral, leverage) ==
    IF from = "" \/ to = "" THEN "Currency pair is required"
    ELSE IF collateral <= 0 THEN "Collateral must be positive"
    ELSE IF leverage <= 0 THEN "Leverage must be positive"
    ELSE NoKey

\* lines 265-300: validation, then the await of the market price; without an
\* SDK the attribute access raises into the handler of line 341
place_order(from, to, collateral, leverage, direction, order_type, limit_price, trader) ==
    /\ pc = "idle"
    /\ po' = [PoIdle EXCEPT !.active = TRUE, !.from = from, !.to = to,
                            !.collateral = collateral, !.leverage = leverage,
                            !.direction = direction,
                            !.trader = IF trader # NoKey THEN trader
                                       ELSE trader_address,
                            !.order_type = order_type, !.limit_price = limit_price]
    /\ IF validate(from, to, collateral, leverage) # NoKey
       THEN /\ outcome' = Failure(validate(from, to, collateral, leverage))
            /\ pc' = "done"
            /\ UNCHANGED <<awaiting, calls>>
       ELSE IF ~sdk
       THEN /\ outcome' = Failure("exception: sdk")
            /\ pc' = "done"
            /\ UNCHANGED <<awaiting, calls>>
       ELSE /\ calls' = Append(calls, Call("get_price", <<>>))
            /\ awaiting' = "pending"
            /\ pc' = "po_price"
            /\ UNCHANGED outcome
    /\ UNCHANGED <<sdk, address, trader_address, private_key, rt, mq, sm, adj, fin, ct, enc>>

\* lines 298-329 with the trade submitted although no price came back
place_order_priced_submitting_unpriced(r, sub) ==
    /\ pc = "po_price"
    /\ awaiting = "completed"
    /\ IF r.k = "raise"
       THEN /\ outcome' = Failure("exception: get_price")
            /\ pc' = "done"
            /\ awaiting' = "none"
            /\ calls' = Append(calls, Call("perform_trade", <<0>>))
            /\ UNCHANGED po
       ELSE LET at_price == execution_price(po.order_type, po.limit_price, r.price) IN
            IF sub.k = "raise"
            THEN /\ po' = [po EXCEPT !.latest_price = r.price,
                                     !.execution_price = at_price]
                 /\ calls' = Append(calls, Call("perform_trade", <<at_price.i>>))
                 /\ outcome' = Failure("exception: perform_trade")
                 /\ pc' = "done"
                 /\ awaiting' = "none"
            ELSE /\ po' = [po EXCEPT !.latest_price = r.price,
                                     !.execution_price = at_price,
                                     !.tx_hash = sub.tx_hash, !.order_id = sub.order_id]
                 /\ calls' = Append(Append(calls, Call("perform_trade", <<at_price.i>>)),
                                    Call("get_price", <<>>))
                 /\ pc' = "po_summary"
                 /\ awaiting' = "pending"
                 /\ UNCHANGED outcome
    /\ UNCHANGED <<sdk, address, trader_address, private_key, rt, mq, sm, adj, fin, ct, enc>>

\* lines 298-329, from the return of the price to the await inside
\* trade_data_points: choose the execution price, submit, start the summary
place_order_priced(r, sub) ==
    /\ pc = "po_price"
    /\ awaiting = "completed"
    /\ IF r.k = "raise"
       THEN /\ outcome' = Failure("exception: get_price")
            /\ pc' = "done"
            /\ awaiting' = "none"
            /\ UNCHANGED <<calls, po>>
       ELSE LET at_price == execution_price(po.order_type, po.limit_price, r.price) IN
            IF sub.k = "raise"
            THEN /\ po' = [po EXCEPT !.latest_price = r.price,
                                     !.execution_price = at_price]
                 /\ calls' = Append(calls, Call("perform_trade", <<at_price.i>>))
                 /\ outcome' = Failure("exception: perform_trade")
                 /\ pc' = "done"
                 /\ awaiting' = "none"
            ELSE /\ po' = [po EXCEPT !.latest_price = r.price,
                                     !.execution_price = at_price,
                                     !.tx_hash = sub.tx_hash, !.order_id = sub.order_id]
                 /\ calls' = Append(Append(calls, Call("perform_trade", <<at_price.i>>)),
                                    Call("get_price", <<>>))
                 /\ pc' = "po_summary"
                 /\ awaiting' = "pending"
                 /\ UNCHANGED outcome
    /\ UNCHANGED <<sdk, address, trader_address, private_key, rt, mq, sm, adj, fin, ct, enc>>

\* lines 323-339 with a failed summary turned into a failure of place_order
place_order_summary_failing(r) ==
    /\ pc = "po_summary"
    /\ awaiting = "completed"
    /\ LET summary == trade_data_points(r, po.collateral, po.leverage, po.direction) IN
       /\ po' = [po EXCEPT !.trade_summary = summary]
       /\ outcome' = IF summary.ok
                     THEN [NoOutcome EXCEPT !.success = TRUE, !.tx_hash = po.tx_hash,
                                            !.order_id = po.order_id,
                                            !.price = V_int(po.latest_price)]
                     ELSE Failure(summary.error)
    /\ pc' = "done"
    /\ awaiting' = "none"
    /\ UNCHANGED <<sdk, address, trader_address, private_key, rt, mq, sm, adj, fin, calls, ct, enc>>

\* lines 323-339: trade_data_points returns (a summary or a failure record,
\* which is only logged) and place_order returns the success result
place_order_summary(r) ==
    /\ pc = "po_summary"
    /\ awaiting = "completed"
    /\ po' = [po EXCEPT !.trade_summary =
                 trade_data_points(r, po.collateral, po.leverage, po.direction)]
    /\ outcome' = [NoOutcome EXCEPT !.success = TRUE, !.tx_hash = po.tx_hash,
                                    !.order_id = po.order_id,
                                    !.price = V_int(po.latest_price)]
    /\ pc' = "done"
    /\ awaiting' = "none"
    /\ UNCHANGED <<sdk, address, trader_address, private_key, rt, mq, sm, adj, fin, calls, ct, enc>>

(***************************************************************************)
(* add_collateral (lines 497-534) and remove_collateral (lines 536-568).   *)
(***************************************************************************)
PositionIdArgs == {V_str(<<>>), V_int(0), V_str(<<"7">>)}
AmountArgs == {0 - 1, 0, 50}
ReceiptResponses ==
    {[k |-> "raise", tx_hash |-> NoKey], [k |-> "dict", tx_hash |-> "0x123"]}

\* lines 507 and 542 accepting an amount of 0
amount_check_allows_zero(pair_id, amount) ==
    IF ~truthy(pair_id) THEN "Trade ID is required"
    ELSE IF amount < 0 THEN "Collateral amount must be positive"
    ELSE NoKey

\* lines 504-508 and 539-543: the reason the request is refused with, NoKey
\* when it is accepted
amount_check(pair_id, amount) ==
    IF ~truthy(pair_id) THEN "Trade ID is required"
    ELSE IF amount <= 0 THEN "Collateral amount must be positive"
    ELSE NoKey

\* lines 504-534: the checks, then the gateway's add_collateral, which is not
\* awaited; sub is what it gives.  Without an SDK the attribute access raises
\* into the handler of line 532
add_collateral(pairID, collateral, sub) ==
    /\ pc = "idle"
    /\ pc' = "done"
    /\ LET frame == [AdjIdle EXCEPT !.op = "add_collateral", !.pair_id = pairID,
                                    !.amount = collateral] IN
       IF amount_check(pairID, collateral) # NoKey
       THEN /\ adj' = frame
            /\ outcome' = Failure(amount_check(pairID, collateral))
            /\ UNCHANGED calls
       ELSE IF ~sdk
       THEN /\ adj' = frame
            /\ outcome' = Failure("exception: sdk")
            /\ UNCHANGED calls
       ELSE /\ calls' = Append(calls, Call("add_collateral", <<collateral>>))
            /\ IF sub.k = "raise"
               THEN /\ adj' = [frame EXCEPT !.submit = "raise"]
                    /\ outcome' = Failure("exception: add_collateral")
               ELSE /\ adj' = [frame EXCEPT !.submit = "accepted",
                                            !.tx_hash = sub.tx_hash]
                    /\ outcome' = [NoOutcome EXCEPT !.success = TRUE,
                                                    !.tx_hash = sub.tx_hash,
                                                    !.pair_id = pairID,
                                                    !.amount = collateral]
    /\ UNCHANGED <<sdk, address, trader_address, private_key, rt, mq, sm, fin, awaiting, ct, po, enc>>

\* lines 539-552: the checks, then the await of the gateway's remove_collateral
remove_collateral(pair_id, remove_amount) ==
    /\ pc = "idle"
    /\ adj' = [AdjIdle EXCEPT !.op = "remove_collateral", !.pair_id = pair_id,
                              !.amount = remove_amount]
    /\ IF amount_check(pair_id, remove_amount) # NoKey
       THEN /\ outcome' = Failure(amount_check(pair_id, remove_amount))
            /\ pc' = "done"
            /\ UNCHANGED <<awaiting, calls>>
       ELSE IF ~sdk
       THEN /\ outcome' = Failure("exception: sdk")
            /\ pc' = "done"
            /\ UNCHANGED <<awaiting, calls>>
       ELSE /\ calls' = Append(calls, Call("remove_collateral", <<remove_amount>>))
            /\ awaiting' = "pending"
            /\ pc' = "rc_submit"
            /\ UNCHANGED outcome
    /\ UNCHANGED <<sdk, address, trader_address, private_key, rt, mq, sm, fin, ct, po, enc>>

\* lines 550-568 with a failed submission submitted a second time
remove_collateral_resubmitting(sub) ==
    /\ pc = "rc_submit"
    /\ awaiting = "completed"
    /\ pc' = "done"
    /\ awaiting' = "none"
    /\ IF sub.k = "raise"
       THEN /\ adj' = [adj EXCEPT !.submit = "raise"]
            /\ calls' = Append(calls, Call("remove_collateral", <<adj.amount>>))
            /\ outcome' = Failure("exception: remove_collateral")
       ELSE /\ adj' = [adj EXCEPT !.submit = "accepted", !.tx_hash = sub.tx_hash]
            /\ UNCHANGED calls
            /\ outcome' = [NoOutcome EXCEPT !.success = TRUE,
                                            !.tx_hash = sub.tx_hash,
                                            !.pair_id = adj.pair_id,
                                            !.amount = adj.amount]
    /\ UNCHANGED <<sdk, address, trader_address, private_key, rt, mq, sm, fin, ct, po, enc>>

\* lines 550-568: the awaited remove_collateral gives sub
remove_collateral_submitted(sub) ==
    /\ pc = "rc_submit"
    /\ awaiting = "completed"
    /\ pc' = "done"
    /\ awaiting' = "none"
    /\ IF sub.k = "raise"
       THEN /\ adj' = [adj EXCEPT !.submit = "raise"]
            /\ outcome' = Failure("exception: remove_collateral")
       ELSE /\ adj' = [adj EXCEPT !.submit = "accepted", !.tx_hash = sub.tx_hash]
            /\ outcome' = [NoOutcome EXCEPT !.success = TRUE,
                                            !.tx_hash = sub.tx_hash,
                                            !.pair_id = adj.pair_id,
                                            !.amount = adj.amount]
    /\ UNCHANGED <<sdk, address, trader_address, private_key, rt, mq, sm, fin, calls, ct, po, enc>>

(***************************************************************************)
(* update_stop_loss (lines 696-713) and update_take_profit (lines          *)
(* 715-732): neither is a coroutine, each is one step.                     *)
(***************************************************************************)
UpdateResponses == {"raise", "true", "false"}

\* lines 704 and 723 with the wallet's own address tried first
delegated_address_own_first(arg) ==
    IF address # NoKey THEN address
    ELSE IF trader_address # NoKey THEN trader_address
    ELSE arg

\* lines 704 and 723: trader_address or self.trader_address or self.address
delegated_address(arg) ==
    IF arg # NoKey THEN arg
    ELSE IF trader_address # NoKey THEN trader_address
    ELSE address

\* lines 703-713 with the argument also stored as the service's trader address
update_stop_loss_storing_trader(arg, r) ==
    /\ pc = "idle"
    /\ pc' = "done"
    /\ trader_address' = IF arg # NoKey THEN arg ELSE trader_address
    /\ LET frame == [AdjIdle EXCEPT !.op = "update_stop_loss", !.trader_address = arg,
                                    !.address = delegated_address(arg)] IN
       IF ~sdk
       THEN /\ adj' = frame
            /\ outcome' = [NoOutcome EXCEPT !.value = "false"]
            /\ UNCHANGED calls
       ELSE /\ calls' = Append(calls, Call("update_sl", <<>>))
            /\ adj' = [frame EXCEPT !.submit = IF r = "raise" THEN "raise"
                                               ELSE "accepted",
                                    !.returned = IF r = "raise" THEN "absent" ELSE r]
            /\ outcome' = [NoOutcome EXCEPT !.value = IF r = "raise" THEN "false"
                                                      ELSE r]
    /\ UNCHANGED <<sdk, address, private_key, rt, mq, sm, fin, awaiting, ct, po, enc>>

\* lines 703-713: choose the address, call the gateway's update_sl and return
\* what it gives, or False after any exception (without an SDK
\* the attribute access raises)
update_stop_loss(arg, r) ==
    /\ pc = "idle"
    /\ pc' = "done"
    /\ LET frame == [AdjIdle EXCEPT !.op = "update_stop_loss", !.trader_address = arg,
                                    !.address = delegated_address(arg)] IN
       IF ~sdk
       THEN /\ adj' = frame
            /\ outcome' = [NoOutcome EXCEPT !.value = "false"]
            /\ UNCHANGED calls
       ELSE /\ calls' = Append(calls, Call("update_sl", <<>>))
            /\ adj' = [frame EXCEPT !.submit = IF r = "raise" THEN "raise"
                                               ELSE "accepted",
                                    !.returned = IF r = "raise" THEN "absent" ELSE r]
            /\ outcome' = [NoOutcome EXCEPT !.value = IF r = "raise" THEN "false"
                                                      ELSE r]
    /\ UNCHANGED <<sdk, address, trader_address, private_key, rt, mq, sm, fin, awaiting, ct, po, enc>>

\* lines 722-732: choose the address, call the gateway's update_tp and return
\* what it gives, or False after any exception
update_take_profit(arg, r) ==
    /\ pc = "idle"
    /\ pc' = "done"
    /\ LET frame == [AdjIdle EXCEPT !.op = "update_take_profit", !.trader_address = arg,
                                    !.address = delegated_address(arg)] IN
       IF ~sdk
       THEN /\ adj' = frame
            /\ outcome' = [NoOutcome EXCEPT !.value = "false"]
            /\ UNCHANGED calls
       ELSE /\ calls' = Append(calls, Call("update_tp", <<>>))
            /\ adj' = [frame EXCEPT !.submit = IF r = "raise" THEN "raise"
                                               ELSE "accepted",
                                    !.returned = IF r = "raise" THEN "absent" ELSE r]
            /\ outcome' = [NoOutcome EXCEPT !.value = IF r = "raise" THEN "false"
                                                      ELSE r]
    /\ UNCHANGED <<sdk, address, trader_address, private_key, rt, mq, sm, fin, awaiting, ct, po, enc>>

(***************************************************************************)
(* set_slippage_percentage (lines 244-249) and get_balances (lines         *)
(* 166-181): neither awaits anything, each is one step.                    *)
(***************************************************************************)
SlippageArgs == {0 - 1, 5}
SetterResponses == {"raise", "ok"}
BalanceAddressArgs == {NoKey, "0xA"}

\* lines 245-249: a value out of range is only warned about; the gateway's
\* setter is called outside any try block, so what it raises, and the
\* attribute access on a missing SDK, leave the function as an exception
set_slippage_percentage(slippage_percentage, r) ==
    /\ pc = "idle"
    /\ pc' = "done"
    /\ adj' = [AdjIdle EXCEPT !.op = "set_slippage_percentage",
                              !.amount = slippage_percentage,
                              !.returned = IF ~sdk THEN "absent" ELSE r]
    /\ IF ~sdk
       THEN /\ outcome' = [NoOutcome EXCEPT !.escaped = TRUE,
                                            !.error = "exception: sdk"]
            /\ UNCHANGED calls
       ELSE /\ calls' = Append(calls, Call("set_slippage_percentage",
                                           <<slippage_percentage>>))
            /\ outcome' = IF r = "raise"
                          THEN [NoOutcome EXCEPT
                                   !.escaped = TRUE,
                                   !.error = "exception: set_slippage_percentage"]
                          ELSE [NoOutcome EXCEPT !.value = "none"]
    /\ UNCHANGED <<sdk, address, trader_address, private_key, rt, mq, sm, fin,
                   awaiting, ct, po, enc>>

\* lines 169-181: no address, no SDK (_require_sdk raises inside the try) and
\* a raising gateway all give the zero balances
get_balances(addr, r) ==
    /\ pc = "idle"
    /\ pc' = "done"
    /\ adj' = [AdjIdle EXCEPT !.op = "get_balances", !.address = addr,
                              !.returned = IF addr = NoKey \/ ~sdk THEN "absent"
                                           ELSE r]
    /\ IF addr = NoKey \/ ~sdk
       THEN /\ outcome' = [NoOutcome EXCEPT !.value = "zero_balances"]
            /\ UNCHANGED calls
       ELSE /\ calls' = Append(calls, Call("get_balance", <<>>))
            /\ outcome' = [NoOutcome EXCEPT
                              !.value = IF r = "raise" THEN "zero_balances"
                                        ELSE "balances"]
    /\ UNCHANGED <<sdk, address, trader_address, private_key, rt, mq, sm, fin,
                   awaiting, ct, po, enc>>

(***************************************************************************)
(* The track-order endpoint (routes/trading.py lines 182-191) over         *)
(* OstiumService.track_order (lines 345-356).                              *)
(***************************************************************************)
\* the order id of the path /track-order/{order_id}; the router hands the
\* handler a segment that is not empty
OrderIdArgs == {"42"}

\* outcomes of `await self.sdk.subgraph.get_orders(order_id)`: it raises,
\* returns None, or returns the order data
OrdersResponses == {"raise", "none", "orders"}

\* lines 345-356: what track_order returns, given whether the lookup was
\* reached and what it gave
track_order(order_id, has_sdk, r) ==
    IF order_id = "" THEN "none"
    ELSE IF ~has_sdk \/ r = "raise" THEN "none"
    ELSE r

\* routes/trading.py lines 184-191: the HTTPException(404) of line 187 is
\* raised inside the try and HTTPException is an Exception, so the handler of
\* lines 189-191 catches it and raises HTTPException(500)
handler_status(result) ==
    LET raised_in_try == IF result = "none" THEN 404 ELSE 0 IN
    IF raised_in_try # 0 THEN 500 ELSE 200

\* a request reaches the endpoint; track_order returns None at once without
\* an SDK (self.sdk.subgraph raises inside its try), else awaits get_orders
track_order_endpoint(order_id) ==
    /\ pc = "idle"
    /\ IF order_id = "" \/ ~sdk
       THEN LET result == track_order(order_id, sdk, "none") IN
            /\ rt' = [active |-> TRUE, order_id |-> order_id, result |-> result,
                      status |-> handler_status(result)]
            /\ outcome' = [NoOutcome EXCEPT !.value = result]
            /\ pc' = "done"
            /\ awaiting' = "none"
            /\ UNCHANGED calls
       ELSE /\ rt' = [RtIdle EXCEPT !.active = TRUE, !.order_id = order_id]
            /\ calls' = Append(calls, Call("get_orders", <<>>))
            /\ pc' = "rt_orders"
            /\ awaiting' = "pending"
            /\ UNCHANGED outcome
    /\ UNCHANGED <<sdk, address, trader_address, private_key, mq, sm, adj, fin, ct, po, enc>>

\* get_orders has returned or raised: track_order returns and the endpoint
\* answers
track_order_answered(r) ==
    /\ pc = "rt_orders"
    /\ awaiting = "completed"
    /\ LET result == track_order(rt.order_id, sdk, r) IN
       /\ rt' = [rt EXCEPT !.result = result, !.status = handler_status(result)]
       /\ outcome' = [NoOutcome EXCEPT !.value = result]
    /\ pc' = "done"
    /\ awaiting' = "none"
    /\ UNCHANGED <<sdk, address, trader_address, private_key, mq, sm, adj, fin, calls, ct, po, enc>>

(***************************************************************************)
(* The specification of the service.                                       *)
(***************************************************************************)
Next ==
    \/ \E p \in PairIdArgs, i \in TradeIndexArgs, c \in ClosePercentageArgs :
          close_trade(p, i, c)
    \/ \E r \in OpenTradesResponses, sub \in SubmitResponses :
          close_trade_resolve(r, sub)
    \/ \E t \in TrackResponses : close_trade_tracked(t)
    \/ \E r \in PriceResponses : close_trade_datapoints_priced(r)
    \/ \E f \in Currencies, t \in Currencies, c \in Collaterals, l \in Leverages,
          d \in BOOLEAN, o \in OrderTypes, lp \in LimitPrices,
          ta \in TraderAddressArgs : place_order(f, t, c, l, d, o, lp, ta)
    \/ \E r \in PriceResponses, sub \in PerformResponses : place_order_priced(r, sub)
    \/ \E r \in PriceResponses : place_order_summary(r)
    \/ \E p \in PositionIdArgs, a \in AmountArgs, sub \in ReceiptResponses :
          add_collateral(p, a, sub)
    \/ \E p \in PositionIdArgs, a \in AmountArgs : remove_collateral(p, a)
    \/ \E sub \in ReceiptResponses : remove_collateral_submitted(sub)
    \/ \E t \in TraderAddressArgs, r \in UpdateResponses : update_stop_loss(t, r)
    \/ \E t \in TraderAddressArgs, r \in UpdateResponses : update_take_profit(t, r)
    \/ \E p \in SlippageArgs, r \in SetterResponses : set_slippage_percentage(p, r)
    \/ \E a \in BalanceAddressArgs, r \in SetterResponses : get_balances(a, r)
    \/ \E o \in OrderIdArgs : track_order_endpoint(o)
    \/ \E r \in OrdersResponses : track_order_answered(r)
    \/ gateway_respond
    \/ return

Spec == Init /\ [][Next]_vars

\* the event loop resumes a coroutine whose awaited call has completed and
\* delivers a returned value; nothing makes the gateway complete a call
Resume ==
    \/ \E r \in OpenTradesResponses, sub \in SubmitResponses :
          close_trade_resolve(r, sub)
    \/ \E t \in TrackResponses : close_trade_tracked(t)
    \/ \E r \in PriceResponses : close_trade_datapoints_priced(r)
    \/ \E r \in PriceResponses, sub \in PerformResponses : place_order_priced(r, sub)
    \/ \E r \in PriceResponses : place_order_summary(r)
    \/ \E sub \in ReceiptResponses : remove_collateral_submitted(sub)
    \/ \E r \in OrdersResponses : track_order_answered(r)
    \/ return

FairSpec == Spec /\ WF_vars(Resume)

(***************************************************************************)
(* The numeric encoding on its own: lines 433-435 applied to any three     *)
(* arguments that are absent or integers.                                  *)
(***************************************************************************)
EncodeInputs ==
    {None} \cup {V_int(n) : n \in {0 - 5, 0, 3, 100, 255, 256, 300, 65535, 65536, 70000}}

InitEncode ==
    /\ sdk = TRUE
    /\ address = "0xA"
    /\ trader_address = NoKey
    /\ private_key = "0xKEY"
    /\ rt = RtIdle
    /\ mq = MqIdle
    /\ sm = SmIdle
    /\ adj = AdjIdle
    /\ fin = FinIdle
    /\ pc = "idle"
    /\ awaiting = "none"
    /\ calls = <<>>
    /\ ct = CtIdle
    /\ po = PoIdle
    /\ outcome = NoOutcome
    /\ enc \in {[EncIdle EXCEPT !.pair_id = a, !.trade_index = b,
                                !.close_percentage = c] :
                   a \in EncodeInputs, b \in EncodeInputs, c \in EncodeInputs}

encode_step ==
    /\ ~enc.applied
    /\ LET e == encode_arguments(enc.pair_id, enc.trade_index, enc.close_percentage)
       IN enc' = [enc EXCEPT !.applied = TRUE, !.raised = ~e.ok, !.out = e.a]
    /\ UNCHANGED <<sdk, address, trader_address, private_key, rt, mq, sm, adj, fin, pc, awaiting, calls, ct, po, outcome>>

NextEncode == encode_step

SpecEncode == InitEncode /\ [][NextEncode]_vars

(***************************************************************************)
(* close_trade for a trader who holds two positions in one market: the     *)
(* actions are those of Spec, the live set is drawn from these positions.  *)
(***************************************************************************)
SameMarketShapes ==
    { Position(V_str(<<"8">>), V_str(<<"3">>), PairDict(V_str(<<"3">>)), V_str(<<"1">>)),
      Position(V_str(<<"6">>), V_str(<<"3">>), PairDict(V_str(<<"3">>)), V_str(<<"0">>)) }

SameMarketResponses ==
    {[k |-> "list", l |-> l] : l \in SeqsUpTo(SameMarketShapes, 2)}

NextSameMarket ==
    \/ \E p \in PairIdArgs, i \in TradeIndexArgs, c \in ClosePercentageArgs :
          close_trade(p, i, c)
    \/ \E r \in SameMarketResponses, sub \in SubmitResponses :
          close_trade_resolve(r, sub)
    \/ \E t \in TrackResponses : close_trade_tracked(t)
    \/ \E r \in PriceResponses : close_trade_datapoints_priced(r)
    \/ gateway_respond
    \/ return

SpecSameMarket == Init /\ [][NextSameMarket]_vars

(***************************************************************************)
(* The market-data queries (lines 183-242): get_latest_prices, get_price,  *)
(* get_pair_info and get_formatted_pairs_details.  A service without an    *)
(* SDK builds a temporary service and awaits the same query of it.         *)
(***************************************************************************)
MaxDepth == 2

MarketQueries ==
    {"get_latest_prices", "get_price", "get_pair_info", "get_formatted_pairs_details"}

\* lines 190-192, 216-220: None; lines 229-231, 240-242: []
Fallback(fn) ==
    IF fn \in {"get_latest_prices", "get_price"} THEN "None" ELSE "[]"

\* the key of lines 187, 204, 226, 237
TempKey == "0x0000"

\* __init__ returning with self.sdk left None although a key was given
constructed_sdk_unset(key) == FALSE

\* lines 32-39 and 72-92: whether self.sdk is set in an instance whose
\* __init__ returned; with a key _initialize_sdk sets it at line 81 or raises
constructed_sdk(key) == key # NoKey

\* outcomes of OstiumService(private_key=...): __init__ raises (no RPC_URL,
\* Account.from_key or OstiumSDK refusing) or returns the instance
ConstructResponses == {"raise", "built"}

\* outcomes of the awaited SDK query: it raises or returns data
QueryResponses == {"raise", "data"}

\* a query is called on the service
market_query(fn, from, to) ==
    /\ mq.stage = "idle"
    /\ pc = "idle"
    /\ mq' = [MqIdle EXCEPT !.fn = fn, !.from = from, !.to = to,
                            !.stage = "entered", !.inst_sdk = sdk]
    /\ UNCHANGED <<sdk, address, trader_address, private_key, pc, awaiting, calls,
                   ct, po, adj, enc, fin, rt, sm, outcome>>

\* the body of the query in the instance at mq.depth: lines 197-199 (get_price
\* only), then the test `if not self.sdk` and either the construction of the
\* temporary service or the SDK call
query_body ==
    /\ mq.stage = "entered"
    /\ IF mq.fn = "get_price" /\ (mq.from = "" \/ mq.to = "")
       THEN mq' = [mq EXCEPT !.stage = "returned", !.failure = "argument",
                             !.ret = Fallback(mq.fn)]
       ELSE IF ~mq.inst_sdk
       THEN mq' = [mq EXCEPT !.stage = "constructing"]
       ELSE mq' = [mq EXCEPT !.stage = "awaiting"]
    /\ UNCHANGED <<sdk, address, trader_address, private_key, pc, awaiting, calls,
                   ct, po, adj, enc, fin, rt, sm, outcome>>

\* OstiumService(private_key="0x" + "0" * 64) raises into the handler of the
\* calling body, or returns and the same query is awaited on the new instance
construct_temp(c) ==
    /\ mq.stage = "constructing"
    /\ mq.depth < MaxDepth
    /\ IF c = "raise"
       THEN mq' = [mq EXCEPT !.stage = "returned", !.failure = "construct",
                             !.ret = Fallback(mq.fn)]
       ELSE mq' = [mq EXCEPT !.stage = "entered", !.depth = @ + 1,
                             !.instances = @ + 1,
                             !.inst_sdk = constructed_sdk(TempKey)]
    /\ UNCHANGED <<sdk, address, trader_address, private_key, pc, awaiting, calls,
                   ct, po, adj, enc, fin, rt, sm, outcome>>

\* the SDK query returns or raises; the handler of the body that awaited it
\* returns the fallback, and a calling body hands on what it was returned
query_answered(r) ==
    /\ mq.stage = "awaiting"
    /\ mq' = [mq EXCEPT !.stage = "returned",
                        !.failure = IF r = "raise" THEN "query" ELSE "none",
                        !.ret = IF r = "raise" THEN Fallback(mq.fn) ELSE "data"]
    /\ UNCHANGED <<sdk, address, trader_address, private_key, pc, awaiting, calls,
                   ct, po, adj, enc, fin, rt, sm, outcome>>

\* the caller has the value; the temporary service is dropped
market_return ==
    /\ mq.stage = "returned"
    /\ mq' = MqIdle
    /\ UNCHANGED <<sdk, address, trader_address, private_key, pc, awaiting, calls,
                   ct, po, adj, enc, fin, rt, sm, outcome>>

NextMarket ==
    \/ \E fn \in MarketQueries, f \in Currencies, t \in Currencies :
          market_query(fn, f, t)
    \/ query_body
    \/ \E c \in ConstructResponses : construct_temp(c)
    \/ \E r \in QueryResponses : query_answered(r)
    \/ market_return

SpecMarket == Init /\ [][NextMarket]_vars

\* a coroutine that can run does run, and an awaited SDK call or constructor
\* returns or raises
Running ==
    \/ query_body
    \/ \E c \in ConstructResponses : construct_temp(c)
    \/ \E r \in QueryResponses : query_answered(r)

FairSpecMarket == SpecMarket /\ WF_vars(Running)

(***************************************************************************)
(* StateManager (state.py lines 16-70) and the module-level instance of    *)
(* line 74.  Every statement is a step of the thread that runs it.  The    *)
(* thread "main" imports the module, which runs line 74; the import lock   *)
(* keeps every other thread from the module until that is done.            *)
(***************************************************************************)
MaxInits == 3
Workers == Threads \ {"main"}
WalletArgs == {<<"k1", "a1">>, <<"k2", "a2">>}
WalletOps ==
    {"set_wallet", "clear_wallet", "get_wallet_info", "get_private_key",
     "get_address", "is_wallet_initialized"}

\* everything that is not the state manager
ServiceVars ==
    <<sdk, address, trader_address, private_key, pc, awaiting, calls, ct, po, adj,
      enc, fin, rt, mq, outcome>>

\* the thread t moves to the frame f
Step(t, f) == [sm EXCEPT !.th[t] = f]

\* line 30 taken as always true
needs_init_always == TRUE

\* line 30: not hasattr(self, '_initialized') or not self._initialized
needs_init == ~sm.initialized

\* with self._state_lock entered without waiting for the lock
lock_free_unguarded(t) == TRUE

\* with self._state_lock: the RLock is free, or held by the thread itself
lock_free(t) == sm.state_lock \in {"none", t}

\* a thread calls StateManager(): "main" at the import (line 74), the others
\* only once the module is imported
construct(t) ==
    /\ sm.th[t].pc = "idle"
    /\ IF t = "main" THEN ~sm.imported ELSE sm.imported
    /\ sm' = Step(t, [NoThread EXCEPT !.pc = "new_check", !.op = "StateManager"])
    /\ UNCHANGED ServiceVars

\* line 22: if cls._instance is None
new_check(t) ==
    /\ sm.th[t].pc = "new_check"
    /\ sm' = Step(t, [sm.th[t] EXCEPT !.pc = IF sm.instance = 0 THEN "new_lock"
                                            ELSE "new_return"])
    /\ UNCHANGED ServiceVars

\* line 23: with cls._lock
new_lock(t) ==
    /\ sm.th[t].pc = "new_lock"
    /\ sm.cls_lock = "none"
    /\ sm' = [Step(t, [sm.th[t] EXCEPT !.pc = "new_check2"]) EXCEPT !.cls_lock = t]
    /\ UNCHANGED ServiceVars

\* line 24: the second test, inside the lock
new_check2(t) ==
    /\ sm.th[t].pc = "new_check2"
    /\ sm' = Step(t, [sm.th[t] EXCEPT !.pc = IF sm.instance = 0 THEN "new_create"
                                            ELSE "new_unlock"])
    /\ UNCHANGED ServiceVars

\* lines 25-26: the instance is made and marked as not initialised
new_create(t) ==
    /\ sm.th[t].pc = "new_create"
    /\ sm.created < MaxInits
    /\ sm' = [Step(t, [sm.th[t] EXCEPT !.pc = "new_unlock"]) EXCEPT
                 !.created = sm.created + 1,
                 !.instance = sm.created + 1,
                 !.initialized = FALSE]
    /\ UNCHANGED ServiceVars

\* the end of the with block of line 23
new_unlock(t) ==
    /\ sm.th[t].pc = "new_unlock"
    /\ sm' = [Step(t, [sm.th[t] EXCEPT !.pc = "new_return"]) EXCEPT
                 !.cls_lock = "none"]
    /\ UNCHANGED ServiceVars

\* line 27: return cls._instance
new_return(t) ==
    /\ sm.th[t].pc = "new_return"
    /\ sm' = Step(t, [sm.th[t] EXCEPT !.pc = "init_check", !.returned = sm.instance])
    /\ UNCHANGED ServiceVars

\* line 30
init_check(t) ==
    /\ sm.th[t].pc = "init_check"
    /\ sm' = Step(t, [sm.th[t] EXCEPT !.pc = IF needs_init THEN "init_wallet"
                                            ELSE "done"])
    /\ UNCHANGED ServiceVars

\* line 31: a new, empty WalletState
init_wallet(t) ==
    /\ sm.th[t].pc = "init_wallet"
    /\ sm.wallets_made < MaxInits
    /\ sm' = [Step(t, [sm.th[t] EXCEPT !.pc = "init_lock"]) EXCEPT
                 !.wallet = EmptyWallet,
                 !.wallets_made = sm.wallets_made + 1]
    /\ UNCHANGED ServiceVars

\* line 32: a new RLock, which nobody holds
init_lock(t) ==
    /\ sm.th[t].pc = "init_lock"
    /\ sm.locks_made < MaxInits
    /\ sm' = [Step(t, [sm.th[t] EXCEPT !.pc = "init_flag"]) EXCEPT
                 !.state_lock = "none",
                 !.locks_made = sm.locks_made + 1]
    /\ UNCHANGED ServiceVars

\* line 33
init_flag(t) ==
    /\ sm.th[t].pc = "init_flag"
    /\ sm' = [Step(t, [sm.th[t] EXCEPT !.pc = "done"]) EXCEPT !.initialized = TRUE]
    /\ UNCHANGED ServiceVars

\* the call returns to its caller; for "main" the import is complete
finish(t) ==
    /\ sm.th[t].pc = "done"
    /\ sm' = [Step(t, NoThread) EXCEPT !.imported = (sm.imported \/ t = "main")]
    /\ UNCHANGED ServiceVars

\* a worker calls one of the methods of lines 35-70 on state_manager
call_wallet(t, op, w) ==
    /\ t \in Workers
    /\ sm.imported
    /\ sm.th[t].pc = "idle"
    /\ sm' = Step(t, [NoThread EXCEPT
                         !.pc = "lock", !.op = op,
                         !.private_key = IF op = "set_wallet" THEN w[1] ELSE NoKey,
                         !.address = IF op = "set_wallet" THEN w[2] ELSE NoKey])
    /\ UNCHANGED ServiceVars

\* lines 37, 44, 49, 54, 59, 66: with self._state_lock
acquire(t) ==
    /\ sm.th[t].pc = "lock"
    /\ lock_free(t)
    /\ sm' = [Step(t, [sm.th[t] EXCEPT
                          !.pc = CASE sm.th[t].op \in {"set_wallet", "clear_wallet"}
                                         -> "write_private_key"
                                   [] sm.th[t].op = "get_private_key"
                                         -> "read_private_key"
                                   [] sm.th[t].op \in {"get_wallet_info", "get_address"}
                                         -> "read_address"
                                   [] OTHER -> "read_is_initialized"])
              EXCEPT !.state_lock = t]
    /\ UNCHANGED ServiceVars

\* lines 38 and 60
write_private_key(t) ==
    /\ sm.th[t].pc = "write_private_key"
    /\ sm' = [Step(t, [sm.th[t] EXCEPT !.pc = "write_address"]) EXCEPT
                 !.wallet.private_key = sm.th[t].private_key]
    /\ UNCHANGED ServiceVars

\* lines 39 and 61
write_address(t) ==
    /\ sm.th[t].pc = "write_address"
    /\ sm' = [Step(t, [sm.th[t] EXCEPT !.pc = "write_is_initialized"]) EXCEPT
                 !.wallet.address = sm.th[t].address]
    /\ UNCHANGED ServiceVars

\* lines 40 and 62
write_is_initialized(t) ==
    /\ sm.th[t].pc = "write_is_initialized"
    /\ sm' = [Step(t, [sm.th[t] EXCEPT !.pc = "unlock"]) EXCEPT
                 !.wallet.is_initialized = (sm.th[t].op = "set_wallet"),
                 !.wallet.written_with = sm.th[t].address]
    /\ UNCHANGED ServiceVars

\* line 45
read_private_key(t) ==
    /\ sm.th[t].pc = "read_private_key"
    /\ sm' = Step(t, [sm.th[t] EXCEPT !.pc = "unlock",
                                     !.seen.private_key = sm.wallet.private_key])
    /\ UNCHANGED ServiceVars

\* lines 50 and 68
read_address(t) ==
    /\ sm.th[t].pc = "read_address"
    /\ sm' = Step(t, [sm.th[t] EXCEPT
                         !.pc = IF sm.th[t].op = "get_wallet_info"
                                THEN "read_is_initialized" ELSE "unlock",
                         !.seen.address = sm.wallet.address])
    /\ UNCHANGED ServiceVars

\* lines 55 and 69
read_is_initialized(t) ==
    /\ sm.th[t].pc = "read_is_initialized"
    /\ sm' = Step(t, [sm.th[t] EXCEPT
                         !.pc = "unlock",
                         !.seen.is_initialized = sm.wallet.is_initialized,
                         !.seen.written_with = sm.wallet.written_with])
    /\ UNCHANGED ServiceVars

\* the end of the with block: the lock the thread entered is released
release(t) ==
    /\ sm.th[t].pc = "unlock"
    /\ sm' = [Step(t, [sm.th[t] EXCEPT !.pc = "done"]) EXCEPT
                 !.state_lock = IF sm.state_lock = t THEN "none" ELSE sm.state_lock]
    /\ UNCHANGED ServiceVars

InitState ==
    /\ sdk = TRUE
    /\ address = "0xA"
    /\ trader_address = NoKey
    /\ private_key = "0xKEY"
    /\ rt = RtIdle
    /\ mq = MqIdle
    /\ sm = SmIdle
    /\ adj = AdjIdle
    /\ fin = FinIdle
    /\ pc = "idle"
    /\ awaiting = "none"
    /\ calls = <<>>
    /\ ct = CtIdle
    /\ po = PoIdle
    /\ outcome = NoOutcome
    /\ enc = EncIdle

NextState ==
    \E t \in Threads :
        \/ construct(t)
        \/ new_check(t)
        \/ new_lock(t)
        \/ new_check2(t)
        \/ new_create(t)
        \/ new_unlock(t)
        \/ new_return(t)
        \/ init_check(t)
        \/ init_wallet(t)
        \/ init_lock(t)
        \/ init_flag(t)
        \/ finish(t)
        \/ \E op \in WalletOps, w \in WalletArgs : call_wallet(t, op, w)
        \/ acquire(t)
        \/ write_private_key(t)
        \/ write_address(t)
        \/ write_is_initialized(t)
        \/ read_private_key(t)
        \/ read_address(t)
        \/ read_is_initialized(t)
        \/ release(t)

SpecState == InitState /\ [][NextState]_vars

(***************************************************************************)
(* The specification of the financial computations: one call of            *)
(* trade_data_points or of close_trade_datapoints on inputs drawn from     *)
(* small sets, and the report of an estimated trade as closed.             *)
(***************************************************************************)
CalcCollaterals == {0, 3, 100}
CalcLeverages == {0 - 1, 0, 1, 10, 1000}
TradeLeverages == {0 - 1, 0, 1, 10}
OpenPrices == {0, 110}
ClosePrices == {112}
ProfitPercents == {Absent, V_int(0), V_int(250), V_int(0 - 1818)}

TradeDataInputs ==
    [isOpen : Tri, has_pair : BOOLEAN, openPrice : OpenPrices, closePrice : ClosePrices,
     collateral : CalcCollaterals, leverage : TradeLeverages, isBuy : BOOLEAN,
     profitPercent : ProfitPercents]

InitCalc ==
    /\ sdk = TRUE
    /\ address = "0xA"
    /\ trader_address = NoKey
    /\ private_key = "0xKEY"
    /\ rt = RtIdle
    /\ mq = MqIdle
    /\ sm = SmIdle
    /\ adj = AdjIdle
    /\ pc = "idle"
    /\ awaiting = "none"
    /\ calls = <<>>
    /\ ct = CtIdle
    /\ po = PoIdle
    /\ outcome = NoOutcome
    /\ enc = EncIdle
    /\ \/ \E c \in CalcCollaterals, l \in CalcLeverages, d \in BOOLEAN :
             fin = [FinIdle EXCEPT !.fn = "trade_data_points", !.stage = "called",
                                   !.collateral = c, !.leverage = l, !.direction = d]
       \/ \E t \in TradeDataInputs, o \in ProfitPercents :
             fin = [FinIdle EXCEPT !.fn = "close_trade_datapoints", !.stage = "called",
                                   !.trade = t, !.order_profit = o]

\* lines 777-801: trade_data_points awaits the price and returns
trade_data_points_returns(r) ==
    /\ fin.fn = "trade_data_points"
    /\ fin.stage = "called"
    /\ fin' = [fin EXCEPT !.stage = "returned", !.price_fetches = 1,
                          !.price_data = r,
                          !.summary = trade_data_points(r, fin.collateral,
                                                        fin.leverage, fin.direction)]
    /\ UNCHANGED <<sdk, address, trader_address, private_key, rt, mq, sm, adj, pc, awaiting, calls, ct, po,
                   outcome, enc>>

\* lines 807-848: close_trade_datapoints returns without asking for a price,
\* for a record without its currencies or for a trade that is not open
close_trade_datapoints_unpriced ==
    /\ fin.fn = "close_trade_datapoints"
    /\ fin.stage = "called"
    /\ datapoints_path(fin.trade) # "open"
    /\ fin' = [fin EXCEPT
                 !.stage = "returned",
                 !.out = IF datapoints_path(fin.trade) = "missing_pair"
                         THEN [NoDatapoints EXCEPT
                                  !.error = "Missing currency pair information"]
                         ELSE closed_datapoints(fin.trade, fin.order_profit)]
    /\ UNCHANGED <<sdk, address, trader_address, private_key, rt, mq, sm, adj, pc, awaiting, calls, ct, po,
                   outcome, enc>>

\* lines 807-826 and 850-890: close_trade_datapoints awaits the price of an
\* open trade and returns the estimate
close_trade_datapoints_estimate(r) ==
    /\ fin.fn = "close_trade_datapoints"
    /\ fin.stage = "called"
    /\ datapoints_path(fin.trade) = "open"
    /\ fin' = [fin EXCEPT !.stage = "returned", !.price_fetches = 1,
                          !.price_data = r,
                          !.out = open_datapoints(fin.trade, r)]
    /\ UNCHANGED <<sdk, address, trader_address, private_key, rt, mq, sm, adj, pc, awaiting, calls, ct, po,
                   outcome, enc>>

\* the trade whose estimate was returned is next reported closed at the
\* estimated price, with the estimated percentage as the order's profitPercent
report_closed ==
    /\ fin.fn = "close_trade_datapoints"
    /\ fin.stage = "returned"
    /\ fin.out.ok
    /\ ~fin.out.closed
    /\ fin' = [FinIdle EXCEPT
                 !.fn = "close_trade_datapoints", !.stage = "called",
                 !.trade = [fin.trade EXCEPT !.isOpen = "false",
                                             !.closePrice = fin.out.exit_price,
                                             !.profitPercent = Absent],
                 !.order_profit = V_int(fin.out.profit_loss_percentage),
                 !.estimate = V_int(fin.out.profit_loss)]
    /\ UNCHANGED <<sdk, address, trader_address, private_key, rt, mq, sm, adj, pc, awaiting, calls, ct, po,
                   outcome, enc>>

NextCalc ==
    \/ \E r \in PriceResponses : trade_data_points_returns(r)
    \/ close_trade_datapoints_unpriced
    \/ \E r \in PriceResponses : close_trade_datapoints_estimate(r)
    \/ report_closed

SpecCalc == InitCalc /\ [][NextCalc]_vars

(***************************************************************************)
(* Properties.                                                             *)
(***************************************************************************)
\* the gateway calls of the invocation in flight that are close submissions
CloseSubmissions == {j \in 1..Len(calls) : calls[j].fn = "close_trade"}
OpenSubmissions == {j \in 1..Len(calls) : calls[j].fn = "perform_trade"}

\* the candidate id, as a string, equals the position's tradeID, its pairId or
\* its nested pair.id
SameId(pos, candidate) ==
    LET c == str(candidate) IN
    \/ (pos.tradeID.k # "absent" /\ str(pos.tradeID) = c)
    \/ (pos.pairId.k # "absent" /\ str(pos.pairId) = c)
    \/ (pos.pair.k = "dict" /\ pos.pair.id.k # "absent" /\ str(pos.pair.id) = c)

SomeLiveMatch == \E j \in 1..Len(ct.positions) : SameId(ct.positions[j], ct.candidate)

\* C1: close_trade submits a close to the gateway only if a position of the
\* live set fetched in the same invocation matched the candidate id; with no
\* matching live position it fails with "not found or already closed" and
\* submits nothing.
C1_SubmitOnlyIfLiveMatch ==
    /\ (CloseSubmissions # {} => SomeLiveMatch)
    /\ (pc = "done" /\ ct.active /\ ct.fetched # "not_run" /\ ~SomeLiveMatch
            => outcome = Failure(NotFoundError) /\ CloseSubmissions = {})

TrackingFailed ==
    \/ ct.tracked \in {"raise", "none"}
    \/ (ct.tracked = "dict" /\ ~ct.result.has_order)

\* C2: once the gateway accepted the close submission, a tracking step that
\* raises, returns nothing or returns a record without an order still ends in
\* success with tx_hash, order_id and the "submitted, tracking failed" note.
C2_TrackingFailureKeepsSuccess ==
    pc = "done" /\ ct.submit = "accepted" /\ TrackingFailed
        => /\ outcome.success
           /\ outcome.tx_hash = ct.tx_hash
           /\ outcome.order_id = ct.order_id
           /\ outcome.note = "Order submitted successfully, but tracking failed"

TrackedCancelled ==
    ct.tracked = "dict" /\ ct.result.has_order /\ ct.result.order.isCancelled = "true"

\* C3: a tracked order with isCancelled=true makes close_trade report failure
\* and carry the venue's cancelReason unchanged in cancel_reason; a cancelled
\* order never yields success=true.
C3_CancelledIsFailure ==
    pc = "done" /\ TrackedCancelled
        => /\ ~outcome.success
           /\ outcome.cancelled = "true"
           /\ (ct.result.order.cancelReason # NoKey
                  => outcome.cancel_reason = ct.result.order.cancelReason)

C3_Witness ==
    /\ pc = "done"
    /\ TrackedCancelled
    /\ ct.submit = "accepted"
    /\ ct.result.order.isPending = "false"
    /\ ct.result.order.cancelReason = "slippage"
    /\ outcome.cancel_reason = "slippage"

InvalidOrder ==
    po.from = "" \/ po.to = "" \/ po.collateral <= 0 \/ po.leverage <= 0

\* C4: place_order with an empty currency, collateral <= 0 or leverage <= 0
\* returns a failure with the matching reason and calls the gateway not at all.
C4_ValidationBeforeGateway ==
    po.active /\ InvalidOrder
        => /\ pc = "done"
           /\ calls = <<>>
           /\ ~outcome.success
           /\ outcome.error =
                 (IF po.from = "" \/ po.to = "" THEN "Currency pair is required"
                  ELSE IF po.collateral <= 0 THEN "Collateral must be positive"
                  ELSE "Leverage must be positive")

C4_Witness ==
    /\ po.active
    /\ po.from = "EUR" /\ po.to = "USD" /\ po.collateral = 100 /\ po.leverage = 0
    /\ outcome.error = "Leverage must be positive"

Nearest(n, max) == IF n < 0 THEN 0 ELSE IF n > max THEN max ELSE n

\* C5: every triple passed to the gateway close submission has its market id
\* in [0, 65535], its slot index in [0, 255] and its percentage in [0, 65535],
\* each being the integer that reached the encoding if that is in range and
\* the nearest boundary otherwise.
C5_SubmittedTripleInDomain ==
    \A j \in CloseSubmissions :
        /\ calls[j].a[1] \in 0..65535
        /\ calls[j].a[2] \in 0..255
        /\ calls[j].a[3] \in 0..65535
        /\ calls[j].a[1] = Nearest(int(ct.pair_id).v, 65535)
        /\ (ct.trade_index.k # "none"
               => calls[j].a[2] = Nearest(int(ct.trade_index).v, 255))
        /\ (ct.close_percentage.k # "none"
               => calls[j].a[3] = Nearest(ct.close_percentage.i, 65535))

C5_Witness ==
    \E j \in CloseSubmissions :
        /\ calls[j].a = <<65535, 255, 0>>
        /\ ct.close_percentage = V_int(0 - 5)
        /\ ct.trade_index = V_int(300)

\* C6: the encoding of absent-or-integer arguments never raises; an absent
\* market id or slot index encodes to 0, an absent percentage to 100, and
\* 70000 -> 65535, -5 -> 0 as u16, 300 -> 255 as u8.
C6_EncodingTotal ==
    enc.applied
        => /\ ~enc.raised
           /\ (enc.pair_id = None => enc.out[1] = 0)
           /\ (enc.trade_index = None => enc.out[2] = 0)
           /\ (enc.close_percentage = None => enc.out[3] = 100)
           /\ (enc.pair_id = V_int(70000) => enc.out[1] = 65535)
           /\ (enc.pair_id = V_int(0 - 5) => enc.out[1] = 0)
           /\ (enc.close_percentage = V_int(70000) => enc.out[3] = 65535)
           /\ (enc.trade_index = V_int(300) => enc.out[2] = 255)

C6_Witness ==
    /\ enc.applied
    /\ enc.pair_id = None
    /\ enc.trade_index = V_int(300)
    /\ enc.close_percentage = None
    /\ enc.out = <<0, 255, 100>>

\* C7: after the close was submitted the wait for tracking is bounded:
\* close_trade always comes to return, also when the gateway never reports.
C7_TrackingWaitEnds == (pc = "ct_tracking") ~> (pc = "done")

SpecExample == <<Position(V_str(<<"7">>), V_str(<<"3">>), PairAbsent, Absent)>>

\* C8: the resolver takes the first live position, in the gateway's order,
\* whose tradeID, pairId or nested pair.id equals the candidate id as a
\* string; for [{tradeID: '7', pairId: '3'}] candidates '3' and '7' resolve to
\* market id 3 and candidate '99' is not found.
C8_FirstMatchResolves ==
    /\ (ct.validation = "found"
           => /\ ct.at \in 1..Len(ct.positions)
              /\ SameId(ct.positions[ct.at], ct.candidate)
              /\ \A j \in 1..(ct.at - 1) : ~SameId(ct.positions[j], ct.candidate))
    /\ (ct.validation = "not_found" => ~SomeLiveMatch)
    /\ (ct.validation # "not_run" /\ ct.fetched = "list" /\ ct.positions = SpecExample
           => /\ (str(ct.candidate) \in {<<"3">>, <<"7">>}
                     => /\ ct.validation = "found"
                        /\ int(ct.pair_id).v = 3
                        /\ \A j \in CloseSubmissions : calls[j].a[1] = 3)
              /\ (str(ct.candidate) = <<"9", "9">>
                     => ct.validation = "not_found" /\ outcome = Failure(NotFoundError)))

C8_Witness ==
    /\ ct.validation = "found"
    /\ Len(ct.positions) = 2
    /\ ct.at = 1
    /\ SameId(ct.positions[2], ct.candidate)
    /\ ct.positions[1] # ct.positions[2]
    /\ CloseSubmissions # {}

\* C9: when fetching the open positions fails at the gateway, close_trade
\* fails with the gateway's cause, not with "position not found or already
\* closed".
C9_FetchFailureIsNotNotFound ==
    pc = "done" /\ ct.active /\ ct.fetched = "raise"
       /\ (\E j \in 1..Len(calls) : calls[j].fn = "get_open_trades")
        => ~outcome.success /\ outcome.error # NotFoundError

\* C10: place_order submits at the limit price exactly when the order type is
\* LIMIT and a non-zero limit price was supplied, and at the market price just
\* fetched in every other case.
C10_ExecutionPrice ==
    \A j \in OpenSubmissions :
        calls[j].a[1] =
            (IF po.order_type = "LIMIT" /\ po.limit_price.k = "int" /\ po.limit_price.i # 0
             THEN po.limit_price.i
             ELSE po.latest_price)

C10_Witness ==
    /\ pc = "done"
    /\ outcome.success
    /\ po.order_type = "LIMIT"
    /\ po.limit_price = V_int(105)
    /\ \E j \in OpenSubmissions : calls[j].a = <<105>>

(***************************************************************************)
(* C11: the outcome a successful place_order returns carries the           *)
(* TradeSummary (entry price, position size, at-open liquidation price,    *)
(* direction) that was computed for the trade just placed.                 *)
(***************************************************************************)
PlacedWithSummary ==
    /\ pc = "done"
    /\ po.active
    /\ outcome.success
    /\ po.trade_summary.ok

C11_OutcomeCarriesSummary ==
    PlacedWithSummary => outcome.trade_summary = po.trade_summary

(***************************************************************************)
(* The financial claims are read on a call that has returned.              *)
(***************************************************************************)
Abs(x) == IF x < 0 THEN 0 - x ELSE x

\* q is n / d rounded to the nearest whole number of hundredths
Nearest100(q, n, d) == 2 * Abs(q * d - n) <= Abs(d)

SummaryReturned ==
    /\ fin.fn = "trade_data_points"
    /\ fin.stage = "returned"

DatapointsReturned ==
    /\ fin.fn = "close_trade_datapoints"
    /\ fin.stage = "returned"

(***************************************************************************)
(* C12: trade_data_points returns entry = the market price, size =         *)
(* collateral * leverage, liquidation = price * (1 - 1/leverage) for a     *)
(* long and price * (1 + 1/leverage) for a short, each rounded to 2        *)
(* decimals, and the direction LONG or SHORT; a long with collateral 100,  *)
(* leverage 10 and price 1.10 gives entry 1.10, size 1000.00, liquidation  *)
(* 0.99, LONG.  It is read where a price arrived and leverage is not 0.    *)
(***************************************************************************)
C12_SummaryFigures ==
    (SummaryReturned /\ fin.price_data.k = "ok" /\ fin.leverage # 0) =>
        /\ fin.summary.ok
        /\ fin.summary.entry = fin.price_data.price
        /\ fin.summary.size = fin.collateral * fin.leverage * 100
        /\ Nearest100(fin.summary.liquidation,
                      IF fin.direction
                      THEN fin.price_data.price * fin.leverage - fin.price_data.price
                      ELSE fin.price_data.price * fin.leverage + fin.price_data.price,
                      fin.leverage)
        /\ fin.summary.direction = (IF fin.direction THEN "LONG" ELSE "SHORT")
        /\ (fin.collateral = 100 /\ fin.leverage = 10 /\ fin.direction
              /\ fin.price_data.price = 110) =>
                 (fin.summary.entry = 110 /\ fin.summary.size = 100000
                    /\ fin.summary.liquidation = 99)

C12_Witness ==
    /\ SummaryReturned
    /\ fin.collateral = 100 /\ fin.leverage = 10 /\ fin.direction
    /\ fin.price_data = [k |-> "ok", price |-> 110]
    /\ fin.summary.liquidation = 99
    /\ fin.summary.direction = "LONG"

(***************************************************************************)
(* C13, as claimed: for every leverage > 0 and positive price the at-open  *)
(* liquidation price trade_data_points gives is strictly below the entry   *)
(* price for a long and strictly above it for a short.                     *)
(***************************************************************************)
AtOpenCase ==
    /\ SummaryReturned
    /\ fin.summary.ok
    /\ fin.leverage > 0
    /\ fin.price_data.price > 0

C13_ReturnedStrictlyBeyondEntry ==
    AtOpenCase =>
        IF fin.direction THEN fin.summary.liquidation < fin.summary.entry
        ELSE fin.summary.liquidation > fin.summary.entry

(***************************************************************************)
(* C13, amended: for every leverage > 0 and positive price the unrounded   *)
(* at-open liquidation price is strictly below the price for a long and    *)
(* strictly above it for a short; the figure returned, rounded to 2        *)
(* decimals, is never on the wrong side of the returned entry and is       *)
(* strictly beyond it whenever price / leverage is at least 0.01.          *)
(***************************************************************************)
C13_LiquidationSide ==
    AtOpenCase =>
        LET liq == fin.summary.liquidation_price
            price == fin.price_data.price
        IN IF fin.direction
           THEN /\ liq[1] < price * liq[2]
                /\ fin.summary.liquidation <= fin.summary.entry
                /\ price >= fin.leverage => fin.summary.liquidation < fin.summary.entry
           ELSE /\ liq[1] > price * liq[2]
                /\ fin.summary.liquidation >= fin.summary.entry
                /\ price >= fin.leverage => fin.summary.liquidation > fin.summary.entry

C13_Witness ==
    /\ AtOpenCase
    /\ fin.leverage = 1000
    /\ fin.summary.liquidation = fin.summary.entry

(***************************************************************************)
(* C14: every financial computation tolerates leverage = 0 and             *)
(* collateral = 0: given its price and its currencies it divides by        *)
(* nothing that is zero and returns figures, not a failure result.         *)
(***************************************************************************)
ZeroInput ==
    \/ /\ SummaryReturned
       /\ fin.price_data.k = "ok"
       /\ fin.leverage = 0 \/ fin.collateral = 0
    \/ /\ DatapointsReturned
       /\ fin.trade.has_pair
       /\ fin.trade.openPrice > 0
       /\ fin.price_fetches = 1 => fin.price_data.k = "ok"
       /\ fin.trade.leverage = 0 \/ fin.trade.collateral = 0

C14_ZeroTolerated ==
    ZeroInput => IF fin.fn = "trade_data_points" THEN fin.summary.ok ELSE fin.out.ok

(***************************************************************************)
(* C15: close_trade_datapoints takes the closed path exactly when the      *)
(* tracked trade reports isOpen = false (a missing isOpen counts as open). *)
(* The closed path fetches no price and reports no liquidation price,      *)
(* closed = true and profit_loss = profitPercent / 100 * collateral, the   *)
(* percentage being the order's if it has one that is not 0, else the      *)
(* trade's, else 0; otherwise the estimate is made, with closed = false.   *)
(***************************************************************************)
ReportedPercentage ==
    IF fin.order_profit.k = "int" /\ fin.order_profit.i # 0 THEN fin.order_profit.i
    ELSE IF fin.trade.profitPercent.k = "int" THEN fin.trade.profitPercent.i
    ELSE 0

C15_ClosedPathIffNotOpen ==
    (DatapointsReturned /\ fin.trade.has_pair) =>
        IF fin.trade.isOpen = "false"
        THEN /\ fin.price_fetches = 0
             /\ fin.out.ok
             /\ fin.out.closed
             /\ ~fin.out.has_liquidation
             /\ fin.out.profit_loss_percentage = ReportedPercentage
             /\ Nearest100(fin.out.profit_loss,
                           ReportedPercentage * fin.trade.collateral, 100)
        ELSE /\ fin.price_fetches = 1
             /\ ~fin.out.closed
             /\ fin.out.ok => fin.out.has_liquidation

C15_Witness ==
    /\ DatapointsReturned
    /\ fin.trade.has_pair
    /\ fin.trade.isOpen = "false"
    /\ fin.order_profit = V_int(250)
    /\ fin.trade.profitPercent = V_int(0 - 1818)
    /\ fin.trade.collateral = 100
    /\ fin.out.profit_loss = 250

(***************************************************************************)
(* C16: the estimate's profit_loss is (exit - entry) / entry * size for a  *)
(* long and (entry - exit) / entry * size for a short, size being          *)
(* collateral * leverage of the tracked record, and its                    *)
(* profit_loss_percentage is profit_loss / collateral * 100 when           *)
(* collateral > 0 and 0 otherwise, each rounded to 2 decimals; entry 1.10, *)
(* exit 1.12, collateral 100, leverage 10, long gives 18.18 and 18.18%.    *)
(***************************************************************************)
Estimated ==
    /\ DatapointsReturned
    /\ fin.out.ok
    /\ ~fin.out.closed

C16_OpenEstimate ==
    Estimated =>
        LET entry == fin.trade.openPrice
            exit == fin.price_data.price
            size == fin.trade.collateral * fin.trade.leverage
            gain == IF fin.trade.isBuy THEN exit - entry ELSE entry - exit
        IN /\ fin.out.size = size * 100
           /\ Nearest100(fin.out.profit_loss, gain * size * 100, entry)
           /\ IF fin.trade.collateral > 0
              THEN Nearest100(fin.out.profit_loss_percentage,
                              gain * fin.trade.leverage * 10000, entry)
              ELSE fin.out.profit_loss_percentage = 0
           /\ (entry = 110 /\ exit = 112 /\ fin.trade.collateral = 100
                 /\ fin.trade.leverage = 10 /\ fin.trade.isBuy) =>
                    (fin.out.profit_loss = 1818 /\ fin.out.profit_loss_percentage = 1818)

C16_Witness ==
    /\ Estimated
    /\ fin.trade.openPrice = 110 /\ fin.price_data.price = 112
    /\ fin.trade.collateral = 100 /\ fin.trade.leverage = 10 /\ fin.trade.isBuy
    /\ fin.out.profit_loss = 1818
    /\ fin.out.profit_loss_percentage = 1818

(***************************************************************************)
(* C17: for every collateral > 0, the percentage the estimate gives, fed   *)
(* to the closed path's percentage / 100 * collateral, gives back the      *)
(* estimate's profit_loss within the rounding of the two figures: 0.01     *)
(* for the amounts and 0.005% of the collateral for the percentage.        *)
(***************************************************************************)
ReportedClosed ==
    /\ DatapointsReturned
    /\ fin.estimate.k = "int"
    /\ fin.out.ok
    /\ fin.out.closed

C17_RoundTrip ==
    (ReportedClosed /\ fin.trade.collateral > 0) =>
        200 * Abs(fin.out.profit_loss - fin.estimate.i) <= fin.trade.collateral + 200

C17_Witness ==
    /\ ReportedClosed
    /\ fin.trade.collateral = 100
    /\ fin.estimate.i = 1818
    /\ fin.out.profit_loss = 1818

(***************************************************************************)
(* C18: add_collateral and remove_collateral with an amount <= 0 or an     *)
(* empty position id return a failure without any gateway call; with a     *)
(* positive amount (and a position id, on a service that has its SDK) they *)
(* submit exactly once, and on success report the transaction reference    *)
(* and the amount that was requested.                                      *)
(***************************************************************************)
CollateralOp == adj.op \in {"add_collateral", "remove_collateral"}

CollateralSubmissions ==
    {j \in 1..Len(calls) : calls[j].fn \in {"add_collateral", "remove_collateral"}}

C18_CollateralAdjustment ==
    CollateralOp =>
        /\ (adj.amount <= 0 \/ ~truthy(adj.pair_id)) =>
              /\ pc = "done"
              /\ ~outcome.success
              /\ outcome.error # NoKey
              /\ calls = <<>>
        /\ (adj.amount > 0 /\ truthy(adj.pair_id) /\ sdk) =>
              /\ Len(calls) = 1
              /\ calls[1] = Call(adj.op, <<adj.amount>>)
        /\ (pc = "done" /\ outcome.success) =>
              /\ adj.submit = "accepted"
              /\ outcome.tx_hash # NoKey
              /\ outcome.tx_hash = adj.tx_hash
              /\ outcome.amount = adj.amount

C18_Witness ==
    /\ adj.op = "remove_collateral"
    /\ pc = "done"
    /\ outcome.success
    /\ outcome.amount = 50
    /\ Cardinality(CollateralSubmissions) = 1

(***************************************************************************)
(* C19: update_stop_loss and update_take_profit submit with the address    *)
(* chosen by strict precedence: the trader_address argument if given, else *)
(* the service's configured trader address if set, else the service's own  *)
(* wallet address; they return what the gateway returns, and False,        *)
(* without raising, when the submission fails.                             *)
(***************************************************************************)
UpdateOp == adj.op \in {"update_stop_loss", "update_take_profit"}

C19_UpdateAddressAndResult ==
    UpdateOp =>
        /\ pc = "done"
        /\ adj.trader_address # NoKey => adj.address = adj.trader_address
        /\ (adj.trader_address = NoKey /\ trader_address # NoKey) =>
              adj.address = trader_address
        /\ (adj.trader_address = NoKey /\ trader_address = NoKey) =>
              adj.address = address
        /\ adj.submit = "accepted" => outcome.value = adj.returned
        /\ adj.submit # "accepted" => outcome.value = "false"
        /\ outcome.value \in {"true", "false"}
        /\ Len(calls) = (IF sdk THEN 1 ELSE 0)

C19_Witness ==
    /\ UpdateOp
    /\ adj.trader_address = NoKey
    /\ trader_address = "0xT"
    /\ adj.address = "0xT"
    /\ outcome.value = "true"

(***************************************************************************)
(* C20, as claimed: in one invocation of place_order, close_trade,         *)
(* add_collateral, remove_collateral, update_stop_loss or                  *)
(* update_take_profit the gateway submission is invoked at most once, and  *)
(* when the submission or any later step fails the operation returns a     *)
(* failure.                                                                *)
(***************************************************************************)
SubmissionFns ==
    {"perform_trade", "close_trade", "add_collateral", "remove_collateral",
     "update_sl", "update_tp"}

Submissions == {j \in 1..Len(calls) : calls[j].fn \in SubmissionFns}

SubmissionFailed ==
    \/ ct.submit \in {"raise", "no_order_id"}
    \/ po.active /\ outcome.error = "exception: perform_trade"
    \/ adj.submit = "raise"

LaterStepFailed ==
    \/ /\ ct.submit = "accepted"
       /\ TrackingFailed \/ ct.close_datapoints \in {"missing_pair", "price_failed"}
    \/ /\ po.active
       /\ po.tx_hash # NoKey
       /\ ~po.trade_summary.ok

ReturnedFailure == ~outcome.success /\ outcome.value # "true"

C20_FailureAfterAnyFailedStep ==
    /\ Cardinality(Submissions) <= 1
    /\ (pc = "done" /\ (SubmissionFailed \/ LaterStepFailed)) => ReturnedFailure

(***************************************************************************)
(* C20, amended: the gateway submission is invoked at most once in an      *)
(* invocation and nothing is resubmitted; a failed submission makes the    *)
(* operation return a failure (False for the two updates).  A later step   *)
(* that fails leaves the one submission in place and makes the outcome a   *)
(* failure only when it is the tracker raising: a tracker that returns     *)
(* nothing or no order, a close report that cannot be computed and a trade *)
(* summary that cannot be computed all leave the outcome a success.        *)
(***************************************************************************)
C20_AtMostOneSubmission ==
    /\ Cardinality(Submissions) <= 1
    /\ (pc = "done" /\ SubmissionFailed) =>
          (ReturnedFailure /\ Cardinality(Submissions) = 1)
    /\ (pc = "done" /\ LaterStepFailed) =>
          /\ Cardinality(Submissions) = 1
          /\ ReturnedFailure <=> ct.tracked = "raise"

C20_Witness ==
    /\ pc = "done"
    /\ ct.submit = "accepted"
    /\ ct.tracked = "none"
    /\ outcome.success
    /\ Cardinality(Submissions) = 1

(***************************************************************************)
(* C21: every public operation of OstiumService returns a value, success   *)
(* or failure, whatever the gateway does and also without an SDK; none     *)
(* lets an exception leave it.                                             *)
(***************************************************************************)
C21_NoExceptionEscapes ==
    pc = "done" => ~outcome.escaped

(***************************************************************************)
(* C22: no operation changes the service's configured trader_address,      *)
(* address, private_key or sdk handle; a trader_address argument acts on   *)
(* the submission of its call only, so the configuration stays what        *)
(* construction made it.                                                   *)
(***************************************************************************)
C22_ConfigurationUnchanged ==
    [][/\ sdk' = sdk
       /\ address' = address
       /\ trader_address' = trader_address
       /\ private_key' = private_key]_vars

C22_Witness ==
    /\ pc = "done"
    /\ adj.op = "update_stop_loss"
    /\ adj.trader_address = "0xB"
    /\ adj.address = "0xB"
    /\ trader_address = "0xT"
    /\ private_key = "0xKEY"

(***************************************************************************)
(* C23: the wallet state is never observed mid-write.  Whenever no thread  *)
(* is inside the lock, and in everything a reader brings back,             *)
(* is_initialized = (private_key is set) = (address is set); the address   *)
(* and the flag get_wallet_info returns come from the same completed       *)
(* set_wallet or clear_wallet.                                             *)
(***************************************************************************)
Consistent(w) ==
    /\ w.is_initialized = (w.private_key # NoKey)
    /\ w.is_initialized = (w.address # NoKey)

Observed(t) == sm.th[t].pc = "done" /\ sm.th[t].op = "get_wallet_info"

C23_WalletNeverSeenMidWrite ==
    /\ sm.state_lock = "none" => Consistent(sm.wallet)
    /\ \A t \in Threads :
          /\ sm.th[t].pc \in {"read_private_key", "read_address", "read_is_initialized"}
                => (sm.state_lock = t /\ Consistent(sm.wallet))
          /\ Observed(t) =>
                /\ sm.th[t].seen.is_initialized = (sm.th[t].seen.address # NoKey)
                /\ sm.th[t].seen.written_with = sm.th[t].seen.address

C23_Witness ==
    /\ Observed("t1")
    /\ sm.th["t1"].seen.address = "a1"
    /\ sm.th["t1"].seen.is_initialized
    /\ sm.th["t2"].op = "clear_wallet"
    /\ sm.th["t2"].pc = "lock"

(***************************************************************************)
(* C24: StateManager is a thread-safe singleton.  Every StateManager()     *)
(* call returns the one instance, the wallet state and its lock are made   *)
(* exactly once, and a construction that runs beside or after a set_wallet *)
(* neither resets the stored wallet nor replaces the lock.                 *)
(***************************************************************************)
Constructed(t) == sm.th[t].pc = "done" /\ sm.th[t].op = "StateManager"

C24_Singleton ==
    /\ sm.created <= 1
    /\ sm.wallets_made <= 1
    /\ sm.locks_made <= 1
    /\ \A t \in Threads : Constructed(t) =>
          /\ sm.th[t].returned = 1
          /\ sm.created = 1 /\ sm.wallets_made = 1 /\ sm.locks_made = 1
          /\ sm.initialized

C24_Witness ==
    /\ Constructed("t1")
    /\ sm.wallet.is_initialized
    /\ sm.wallet.address = "a2"
    /\ sm.th["t2"].op = "StateManager"
    /\ sm.th["t2"].pc = "init_check"

(***************************************************************************)
(* C25: in place_order the price is fetched first and the trade submitted  *)
(* after it: no submission is made before the price fetch has returned,    *)
(* and when the price fetch fails place_order returns a failure and        *)
(* submits nothing.                                                        *)
(***************************************************************************)
PriceFetches == {j \in 1..Len(calls) : calls[j].fn = "get_price"}

C25_PriceBeforeSubmission ==
    po.active =>
        /\ \A j \in OpenSubmissions : \E k \in PriceFetches : k < j
        /\ pc = "po_price" => OpenSubmissions = {}
        /\ (pc = "done" /\ outcome.error = "exception: get_price") =>
              (~outcome.success /\ OpenSubmissions = {})
        /\ OpenSubmissions # {} => po.latest_price > 0

C25_Witness ==
    /\ po.active
    /\ pc = "done"
    /\ outcome.error = "exception: get_price"
    /\ calls = <<Call("get_price", <<>>)>>

(***************************************************************************)
(* C26: if the live set holds a position with market id m and slot index   *)
(* i, close_trade(pair_id = m, trade_index = i) submits the close for      *)
(* (m, i), also when another position of market m with another slot index  *)
(* comes earlier in the live list.                                         *)
(***************************************************************************)
HasLive(positions, m, i) ==
    \E k \in 1..Len(positions) :
        /\ positions[k].pairId.k # "absent"
        /\ str(positions[k].pairId) = str(m)
        /\ positions[k].index.k # "absent"
        /\ str(positions[k].index) = str(i)

C26_ClosesRequestedSlot ==
    [][(/\ pc = "ct_positions"
        /\ Len(calls') > Len(calls)
        /\ ct.trade_index.k # "none"
        /\ HasLive(ct'.positions, ct.pair_id, ct.trade_index))
          => /\ calls'[Len(calls) + 1].fn = "close_trade"
             /\ calls'[Len(calls) + 1].a[1] = int(ct.pair_id).v
             /\ calls'[Len(calls) + 1].a[2] = int(ct.trade_index).v]_vars

(***************************************************************************)
(* C27: after a close was tracked, close_trade_datapoints is called (and   *)
(* a further price fetched) only for an order that is processed            *)
(* (isPending false) and not cancelled; for an order still pending or      *)
(* cancelled there is no financial computation and no price fetch.         *)
(***************************************************************************)
Processed(order) == order.isPending = "false" /\ order.isCancelled # "true"

C27_DatapointsOnlyWhenProcessed ==
    (ct.active /\ ct.tracked = "dict" /\ ct.result.has_order) =>
        (~Processed(ct.result.order) =>
            /\ ct.close_datapoints = "not_called"
            /\ \A j \in 1..Len(calls) : calls[j].fn # "get_price")

(***************************************************************************)
(* C28: once the gateway accepted the submission of place_order, the       *)
(* operation returns success with the transaction hash and the order id,   *)
(* whether or not the trade summary (its second price fetch) failed.       *)
(***************************************************************************)
C28_SummaryFailureKeepsSuccess ==
    (po.active /\ pc = "done" /\ po.tx_hash # NoKey) =>
        /\ outcome.success
        /\ outcome.error = NoKey
        /\ outcome.tx_hash = po.tx_hash
        /\ outcome.order_id = po.order_id

C28_Witness ==
    /\ po.active
    /\ pc = "done"
    /\ po.tx_hash # NoKey
    /\ ~po.trade_summary.ok
    /\ po.trade_summary.error = "Could not fetch current price"
    /\ outcome.success

(***************************************************************************)
(* C29: the track-order endpoint answers 404 when track_order returned     *)
(* nothing (empty order id or failed lookup), and 500 only for unexpected  *)
(* errors.                                                                 *)
(***************************************************************************)
C29_NotFoundIs404 ==
    (rt.active /\ pc = "done") =>
        /\ rt.result = "none" => rt.status = 404
        /\ rt.status # 500

(***************************************************************************)
(* C30: a market-data query on a service without an SDK terminates; it     *)
(* builds at most one temporary service, delegates at depth at most one,   *)
(* and returns the fallback (None or []) when the temporary service cannot *)
(* be built or its query fails.                                            *)
(***************************************************************************)
MarketBounded ==
    /\ mq.depth <= 1
    /\ mq.instances <= 1
    /\ mq.instances = mq.depth
    /\ (mq.stage = "returned" /\ mq.failure # "none") => mq.ret = Fallback(mq.fn)
    /\ (mq.stage = "returned" /\ mq.failure = "none") => mq.ret = "data"

C30_MarketQueryTerminates ==
    /\ [](~sdk => MarketBounded)
    /\ (~sdk /\ mq.stage = "entered") ~> (mq.stage = "returned")

C30_Witness ==
    /\ ~sdk
    /\ mq.stage = "returned"
    /\ mq.depth = 1
    /\ mq.instances = 1
    /\ mq.failure = "query"
    /\ mq.ret = Fallback(mq.fn)

====
